---- MODULE Spec2Model ----
(***************************************************************************)
(* deckcodec: a deck (leader list, tactics list, main-deck map) is encoded *)
(* against a pack (FormatID, Cards) into a base64url string and decoded    *)
(* back.  The model follows encode.go (Encode, Decode, idBits, ordinalOf)  *)
(* and internal/bitio.go (Writer, Reader).                                 *)
(*                                                                         *)
(***************************************************************************)
EXTENDS Integers, Sequences, FiniteSets, TLC

VARIABLES p, in, order, enc, str, q, dec, in2, order2, enc2, pc,
          wr, wrote, flushed, rdr, rd, got, used, arg, res

\* the variables of the calls on a Writer and a Reader
bitVars == <<wr, wrote, flushed, rdr, rd, got, used>>

\* the argument and the result of a call of a helper function
fnVars == <<arg, res>>

\* the variables of the calls of Encode and Decode
codecVars == <<p, in, order, enc, str, q, dec, in2, order2, enc2>>

vars == <<codecVars, pc, bitVars, fnVars>>

(***************************************************************************)
(* Bits.  A value written or read (uint32) is a number below 2^31.  The    *)
(* accumulator acc (uint64) of a Writer or a Reader is kept as the         *)
(* sequence of its low nbits bits, least significant first: its bits at    *)
(* nbits and above are zero in every state of both, and nbits stays below  *)
(* 40, so no bit is ever shifted out of the 64.                            *)
(***************************************************************************)

\* bit i (from 1, the least significant) of v
BitOf(v, i) == IF i > 31 THEN 0 ELSE (v \div (2 ^ (i - 1))) % 2

\* the bits of v under a mask one bit too short, (1 << (width - 1)) - 1
LowBitsNarrow(v, width) == [i \in 1..width |-> IF i = width THEN 0 ELSE BitOf(v, i)]

\* the bits of v & ((1 << width) - 1), least significant first
LowBits(v, width) == [i \in 1..width |-> BitOf(v, i)]

\* the number a sequence of bits holds
RECURSIVE ValueOf(_)
ValueOf(bits) == IF Len(bits) = 0 THEN 0 ELSE Head(bits) + 2 * ValueOf(Tail(bits))

\* byte(acc & 0xff)
LowByte(acc) == ValueOf(SubSeq(acc, 1, IF Len(acc) < 8 THEN Len(acc) ELSE 8))

(***************************************************************************)
(* internal/bitio.go: Writer                                               *)
(***************************************************************************)

\* var bw bitio.Writer: the zero value; calls counts the WriteBits calls
NewWriter == [Buf |-> <<>>, acc |-> <<>>, nbits |-> 0, calls |-> 0]

\* the loop of WriteBits: flush the low byte while 8 bits or more are held
RECURSIVE FlushBytes(_)
FlushBytes(w) ==
    IF w.nbits >= 8
    THEN FlushBytes([w EXCEPT !.Buf = Append(w.Buf, LowByte(w.acc)),
                              !.acc = SubSeq(w.acc, 9, Len(w.acc)),
                              !.nbits = w.nbits - 8])
    ELSE w

\* WriteBits(v uint32, width int): acc |= uint64(v & mask) << nbits, then the loop
WriteBits(w, v, width) ==
    FlushBytes([w EXCEPT !.acc = w.acc \o LowBits(v, width),
                         !.nbits = w.nbits + width,
                         !.calls = w.calls + 1])

\* Finish without its test of nbits
FinishAlways(w) ==
    [w EXCEPT !.Buf = Append(w.Buf, LowByte(w.acc)),
              !.acc = <<>>,
              !.nbits = 0]

\* Finish: the writer after the call; the bytes returned are its Buf
Finish(w) ==
    IF w.nbits > 0
    THEN [w EXCEPT !.Buf = Append(w.Buf, LowByte(w.acc)),
                   !.acc = <<>>,
                   !.nbits = 0]
    ELSE w

(***************************************************************************)
(* internal/bitio.go: Reader                                               *)
(***************************************************************************)

Nil == "nil"
ErrShort == "deckcodec/bitio: unexpected EOF"

NewReader(src, validBits) ==
    [Src |-> src, acc |-> <<>>, nbits |-> 0, cur |-> 0,
     rem |-> IF validBits < 0 THEN Len(src) * 8 ELSE validBits]

\* the width of the accumulator of a Reader, a uint64
AccBits == 64

\* the bits a, filled with zeros up to n bits
PadTo(a, n) == a \o [i \in 1..(n - Len(a)) |-> 0]

\* the n lowest bits of a
LowEnd(a, n) == IF Len(a) <= n THEN a ELSE SubSeq(a, 1, n)

\* the accumulator taken for a uint32
AccOrNarrow(acc, nbits, b) == LowEnd(PadTo(acc, nbits) \o LowBits(b, 8), 32)

\* r.acc |= uint64(b) << r.nbits: the bits of b from position nbits on, those
\* past the 64th lost.  acc holds the bits of the accumulator up to the highest
\* that was loaded; the bits above are zero.
AccOr(acc, nbits, b) == LowEnd(PadTo(acc, nbits) \o LowBits(b, 8), AccBits)

\* the loading loop of ReadBits; ok is FALSE when Src runs out of bytes
RECURSIVE LoadBytes(_, _)
LoadBytes(r, width) ==
    IF r.nbits < width
    THEN IF r.cur >= Len(r.Src)
         THEN [r |-> r, ok |-> FALSE]
         ELSE LoadBytes([r EXCEPT !.acc = AccOr(r.acc, r.nbits, r.Src[r.cur + 1]),
                                  !.cur = r.cur + 1,
                                  !.nbits = r.nbits + 8], width)
    ELSE [r |-> r, ok |-> TRUE]

\* uint32(r.acc & mask): the lowest width bits of the accumulator, 32 at most
AccLow(acc, width) ==
    LET n == IF width < 32 THEN width ELSE 32 IN ValueOf(LowEnd(PadTo(acc, n), n))

\* r.acc >>= width
AccShift(acc, width) ==
    IF width >= Len(acc) THEN <<>> ELSE SubSeq(acc, width + 1, Len(acc))

\* the guard on the budget counted in whole bytes
ShortOfBitsInBytes(rem, width) == (rem + 7) \div 8 < (width + 7) \div 8

\* the guard of ReadBits on the valid-bit budget
ShortOfBits(rem, width) == rem < width

\* ReadBits that hands out zero bits, and no error, where the stream is short
ReadBitsPadded(r, width) ==
    IF width < 0 THEN [r |-> r, out |-> 0, err |-> Nil]
    ELSE IF ShortOfBits(r.rem, width) THEN [r |-> r, out |-> 0, err |-> Nil]
    ELSE LET ld == LoadBytes(r, width) IN
         IF ~ld.ok THEN [r |-> ld.r, out |-> 0, err |-> Nil]
         ELSE [r |-> [ld.r EXCEPT !.acc = AccShift(ld.r.acc, width),
                                  !.nbits = ld.r.nbits - width,
                                  !.rem = ld.r.rem - width],
               out |-> AccLow(ld.r.acc, width),
               err |-> Nil]

\* ReadBits(width int) (uint32, error): the reader after the call, the value
\* and the error
ReadBits(r, width) ==
    IF width < 0 THEN [r |-> r, out |-> 0, err |-> ErrShort]
    ELSE IF ShortOfBits(r.rem, width) THEN [r |-> r, out |-> 0, err |-> ErrShort]
    ELSE LET ld == LoadBytes(r, width) IN
         IF ~ld.ok THEN [r |-> ld.r, out |-> 0, err |-> ErrShort]
         ELSE [r |-> [ld.r EXCEPT !.acc = AccShift(ld.r.acc, width),
                                  !.nbits = ld.r.nbits - width,
                                  !.rem = ld.r.rem - width],
               out |-> AccLow(ld.r.acc, width),
               err |-> Nil]

(***************************************************************************)
(* encoding/base64, RawURLEncoding.  A string is a sequence of characters; *)
(* a character of the alphabet A-Za-z0-9-_ is its 6-bit index 0..63, CharNL*)
(* is a line break (skipped by the decoder) and CharBad any other          *)
(* character, '=' included (the encoding has no padding character).        *)
(***************************************************************************)

CharBad == 64
CharNL == 65
ErrBase64 == "base64: illegal base64 data"

\* byte i (from 1) of raw, zero past its end
ByteAt(raw, i) == IF i <= Len(raw) THEN raw[i] ELSE 0

\* EncodeToString: every 3 bytes give 4 characters, a rest of 1 byte gives 2 and
\* a rest of 2 gives 3; character i is cut from the 24 bits of its group
EncodeToString(raw) ==
    [i \in 1..((Len(raw) * 8 + 5) \div 6) |->
        LET g == (i - 1) \div 4
            val == ByteAt(raw, 3 * g + 1) * 65536 + ByteAt(raw, 3 * g + 2) * 256
                       + ByteAt(raw, 3 * g + 3)
        IN  (val \div (64 ^ (3 - ((i - 1) % 4)))) % 64]

\* character i (from 1) of s, zero past its end
CharAt(s, i) == IF i <= Len(s) THEN s[i] ELSE 0

\* the quanta of the decoder, on a string of alphabet characters: every 4
\* characters give 3 bytes, a rest of 2 gives 1 byte and a rest of 3 gives 2 (the
\* bits left over are dropped, the encoding is not strict)
DecodeQuanta(s) ==
    [j \in 1..((Len(s) * 6) \div 8) |->
        LET g == (j - 1) \div 3
            val == CharAt(s, 4 * g + 1) * 262144 + CharAt(s, 4 * g + 2) * 4096
                       + CharAt(s, 4 * g + 3) * 64 + CharAt(s, 4 * g + 4)
        IN  (val \div (256 ^ (2 - ((j - 1) % 3)))) % 256]

\* DecodeString: line breaks are skipped; any other character outside the
\* alphabet, or a rest of a single character, is a CorruptInputError
\* a decoder that skips what is not of the alphabet and a last character that
\* holds no byte
DecodeStringLenient(s) ==
    LET t == SelectSeq(s, LAMBDA c : c <= 63)
        u == IF Len(t) % 4 = 1 THEN SubSeq(t, 1, Len(t) - 1) ELSE t
    IN  [raw |-> DecodeQuanta(u), err |-> Nil]

DecodeString(s) ==
    LET t == SelectSeq(s, LAMBDA c : c # CharNL) IN
    IF \E i \in 1..Len(t) : t[i] > 63 THEN [raw |-> <<>>, err |-> ErrBase64]
    ELSE IF Len(t) % 4 = 1 THEN [raw |-> <<>>, err |-> ErrBase64]
    ELSE [raw |-> DecodeQuanta(t), err |-> Nil]

(***************************************************************************)
(* encode.go: the ordinal mapper                                           *)
(***************************************************************************)

\* the loop of idBits: the first b from b0 on with (1 << b) >= m
RECURSIVE idBitsFrom(_, _)
idBitsFrom(b, m) == IF 2 ^ b < m THEN idBitsFrom(b + 1, m) ELSE b

\* the width of the number m - 1 taken for the width of m values
idBitsOfLast(m) == IF m <= 1 THEN 1 ELSE idBitsFrom(0, m - 1)

idBits(m) == IF m <= 1 THEN 1 ELSE idBitsFrom(0, m)

\* sort.Search(n, f) with f(i) = cards[i] >= pk: the binary search as the
\* library runs it, on whatever order cards is in
RECURSIVE Search(_, _, _, _)
Search(i, j, cards, pk) ==
    IF i < j
    THEN LET h == (i + j) \div 2 IN
         IF ~(cards[h + 1] >= pk) THEN Search(h + 1, j, cards, pk)
         ELSE Search(i, h, cards, pk)
    ELSE i

\* ordinalOf without the comparison of the card found with pk
ordinalOfInsertion(cards, pk) ==
    LET i == Search(0, Len(cards), cards, pk) IN
    [o |-> i, ok |-> i < Len(cards)]

\* ordinalOf(cards, pk) (uint32, bool)
ordinalOf(cards, pk) ==
    LET i == Search(0, Len(cards), cards, pk) IN
    [o |-> i, ok |-> i < Len(cards) /\ cards[i + 1] = pk]

\* the entries of s in ascending order, gathered value by value over lo..hi
RECURSIVE SortRange(_, _, _)
SortRange(s, lo, hi) ==
    IF lo > hi THEN <<>>
    ELSE IF lo = hi THEN SelectSeq(s, LAMBDA x : x = lo)
    ELSE LET m == (lo + hi) \div 2 IN SortRange(s, lo, m) \o SortRange(s, m + 1, hi)

\* toOrd without its slices.Sort
SortOrdsSkipped(s) == s

\* slices.Sort on []uint32: s in ascending order
SortOrds(s) ==
    IF Len(s) = 0 THEN s
    ELSE LET vs == {s[i] : i \in DOMAIN s}
             lo == CHOOSE v \in vs : \A u \in vs : v <= u
             hi == CHOOSE v \in vs : \A u \in vs : u <= v
         IN  SortRange(s, lo, hi)

\* the pairs of P in ascending order of their ordinal, gathered over lo..hi
RECURSIVE SortPairsRange(_, _, _)
SortPairsRange(P, lo, hi) ==
    IF lo > hi THEN <<>>
    ELSE IF lo = hi THEN SelectSeq(P, LAMBDA x : x.o = lo)
    ELSE LET m == (lo + hi) \div 2
         IN  SortPairsRange(P, lo, m) \o SortPairsRange(P, m + 1, hi)

\* Encode without its sort.Slice
SortPairsSkipped(P) == P

\* sort.Slice(P, func(i, j) { return P[i].o < P[j].o }): P in ascending order of
\* the ordinals (the keys of a map are distinct, and so are their ordinals)
SortPairs(P) ==
    IF Len(P) = 0 THEN P
    ELSE LET vs == {P[i].o : i \in DOMAIN P}
             lo == CHOOSE v \in vs : \A u \in vs : v <= u
             hi == CHOOSE v \in vs : \A u \in vs : u <= v
         IN  SortPairsRange(P, lo, hi)

(***************************************************************************)
(* encode.go: Encode                                                       *)
(***************************************************************************)

ErrFormatZero == "deckcodec: pack.FormatID must be non-zero"
ErrEmptyPack == "deckcodec: empty pack"
ErrNotInPack == "deckcodec: pk not in pack"
ErrCount == "deckcodec: count out of range (1..4)"
ErrLeaderLong == "deckcodec: leader too long"
ErrTacticsLong == "deckcodec: tactics too long"
ErrDeckLong == "deckcodec: deck unique too long"

\* the loop of toOrd: the ordinals in input order, or the error of the first
\* unknown pk
toOrdLoop(cards, pks) ==
    IF \E i \in DOMAIN pks : ~ordinalOf(cards, pks[i]).ok
    THEN [ords |-> <<>>, err |-> ErrNotInPack]
    ELSE [ords |-> [i \in DOMAIN pks |-> ordinalOf(cards, pks[i]).o], err |-> Nil]

toOrd(cards, pks) ==
    LET r == toOrdLoop(cards, pks) IN
    IF r.err # Nil THEN r ELSE [ords |-> SortOrds(r.ords), err |-> Nil]

\* the range check with its upper end one too high
CountInRangeWide(c) == ~(c < 1 \/ c > 5)

\* the range check of the deck loop
CountInRange(c) == ~(c < 1 \/ c > 4)

\* the loop over in.Deck, visiting the keys in the order keys: the pairs in that
\* order, or the error of the first key that fails, its count checked before
\* its ordinal
deckLoop(cards, deck, keys) ==
    LET bad == {i \in DOMAIN keys :
                   ~CountInRange(deck[keys[i]]) \/ ~ordinalOf(cards, keys[i]).ok}
    IN  IF bad = {}
        THEN [P |-> [i \in DOMAIN keys |->
                        [o |-> ordinalOf(cards, keys[i]).o, c |-> deck[keys[i]]]],
              err |-> Nil]
        ELSE LET i == CHOOSE j \in bad : \A k \in bad : j <= k IN
             IF ~CountInRange(deck[keys[i]]) THEN [P |-> <<>>, err |-> ErrCount]
             ELSE [P |-> <<>>, err |-> ErrNotInPack]

\* for _, o := range ords { bw.WriteBits(o, ib) }, one half of ords after the
\* other.  WriteBits leaves fewer than 8 bits pending; reading first.nbits
\* makes the first half be evaluated before the second is entered.
RECURSIVE WriteOrds(_, _, _)
WriteOrds(bw, ords, ib) ==
    IF Len(ords) = 0 THEN bw
    ELSE IF Len(ords) = 1 THEN WriteBits(bw, ords[1], ib)
    ELSE LET h == Len(ords) \div 2
             first == WriteOrds(bw, SubSeq(ords, 1, h), ib)
         IN  IF first.nbits < 8
             THEN WriteOrds(first, SubSeq(ords, h + 1, Len(ords)), ib)
             ELSE first

\* for _, e := range P { bw.WriteBits(e.o, ib); bw.WriteBits(uint32(e.c-1), 2) },
\* one half of P after the other
\* the body of the deck loop with its two writes exchanged
WritePairCountFirst(bw, pr, ib) == WriteBits(WriteBits(bw, (pr.c - 1) % 256, 2), pr.o, ib)

\* the body of the deck loop: the ordinal in ib bits, then uint32(pr.c-1) in 2
WritePair(bw, pr, ib) == WriteBits(WriteBits(bw, pr.o, ib), (pr.c - 1) % 256, 2)

RECURSIVE WritePairs(_, _, _)
WritePairs(bw, P, ib) ==
    IF Len(P) = 0 THEN bw
    ELSE IF Len(P) = 1
    THEN WritePair(bw, P[1], ib)
    ELSE LET h == Len(P) \div 2
             first == WritePairs(bw, SubSeq(P, 1, h), ib)
         IN  IF first.nbits < 8
             THEN WritePairs(first, SubSeq(P, h + 1, Len(P)), ib)
             ELSE first

\* a section longer than the 8-bit count field holds
MaxSection == 255
\* the length check with its limit one too high
TooLongLate(n) == n > MaxSection + 1

TooLong(n) == n > MaxSection

\* the checks of the pack without the one on empty Cards
PackErrorFormatOnly(pack) ==
    IF pack.FormatID = 0 THEN ErrFormatZero ELSE Nil

\* the checks of the pack at the head of Encode
PackError(pack) ==
    IF pack.FormatID = 0 THEN ErrFormatZero
    ELSE IF Len(pack.Cards) = 0 THEN ErrEmptyPack
    ELSE Nil

EncFail(e, bw) == [code |-> <<>>, err |-> e, bw |-> bw]

\* Encode with the header written as soon as the pack has been checked, before
\* the identifiers and counts of the deck are
EncodeHeaderFirst(pack, deck, keys) ==
    IF PackError(pack) # Nil THEN EncFail(PackError(pack), NewWriter)
    ELSE
    LET ib == idBits(Len(pack.Cards))
        bw1 == WriteBits(NewWriter, pack.FormatID, 16)
        L == toOrd(pack.Cards, deck.Leader)
    IN
    IF L.err # Nil THEN EncFail(L.err, bw1)
    ELSE
    LET T == toOrd(pack.Cards, deck.Tactics) IN
    IF T.err # Nil THEN EncFail(T.err, bw1)
    ELSE
    LET D == deckLoop(pack.Cards, deck.Deck, keys) IN
    IF D.err # Nil THEN EncFail(D.err, bw1)
    ELSE
    LET P == SortPairs(D.P) IN
    IF TooLong(Len(L.ords)) THEN EncFail(ErrLeaderLong, bw1)
    ELSE
    LET bw2 == WriteOrds(WriteBits(bw1, Len(L.ords), 8), L.ords, ib) IN
    IF TooLong(Len(T.ords)) THEN EncFail(ErrTacticsLong, bw2)
    ELSE
    LET bw3 == WriteOrds(WriteBits(bw2, Len(T.ords), 8), T.ords, ib) IN
    IF TooLong(Len(P)) THEN EncFail(ErrDeckLong, bw3)
    ELSE
    LET bw4 == Finish(WritePairs(WriteBits(bw3, Len(P), 8), P, ib)) IN
    [code |-> EncodeToString(bw4.Buf), err |-> Nil, bw |-> bw4]

\* Encode(p, in), the map in.Deck being ranged over in the order keys: the code,
\* the error and the bit writer as the call leaves it
Encode(pack, deck, keys) ==
    IF PackError(pack) # Nil THEN EncFail(PackError(pack), NewWriter)
    ELSE
    LET ib == idBits(Len(pack.Cards))
        L == toOrd(pack.Cards, deck.Leader)
    IN
    IF L.err # Nil THEN EncFail(L.err, NewWriter)
    ELSE
    LET T == toOrd(pack.Cards, deck.Tactics) IN
    IF T.err # Nil THEN EncFail(T.err, NewWriter)
    ELSE
    LET D == deckLoop(pack.Cards, deck.Deck, keys) IN
    IF D.err # Nil THEN EncFail(D.err, NewWriter)
    ELSE
    LET P == SortPairs(D.P)
        bw1 == WriteBits(NewWriter, pack.FormatID, 16)
    IN
    IF TooLong(Len(L.ords)) THEN EncFail(ErrLeaderLong, bw1)
    ELSE
    LET bw2 == WriteOrds(WriteBits(bw1, Len(L.ords), 8), L.ords, ib) IN
    IF TooLong(Len(T.ords)) THEN EncFail(ErrTacticsLong, bw2)
    ELSE
    LET bw3 == WriteOrds(WriteBits(bw2, Len(T.ords), 8), T.ords, ib) IN
    IF TooLong(Len(P)) THEN EncFail(ErrDeckLong, bw3)
    ELSE
    LET bw4 == Finish(WritePairs(WriteBits(bw3, Len(P), 8), P, ib)) IN
    [code |-> EncodeToString(bw4.Buf), err |-> Nil, bw |-> bw4]

(***************************************************************************)
(* encode.go: Decode                                                       *)
(***************************************************************************)

ErrFormatMismatch == "deckcodec: format_id mismatch"
ErrOrdinalOOB == "deckcodec: ordinal OOB"
PanicIndex == "panic: runtime error: index out of range"

EmptyMap == <<>>

\* DeckOutput{}: what Decode returns beside an error
ZeroOutput == [FormatID |-> 0, Leader |-> <<>>, Tactics |-> <<>>, Deck |-> EmptyMap]

\* a failed Decode: beside the error, the bit reader as the call leaves it and
\* the section in which an ordinal not below len(p.Cards) was read
DecFail(e, br, oob) == [out |-> ZeroOutput, err |-> e, br |-> br, oob |-> oob]

\* the header check on the low byte alone
HeaderMismatchLowByte(fid, formatID) == (fid % 256) # (formatID % 256)

\* the header check: uint16(fid) != p.FormatID
HeaderMismatch(fid, formatID) == (fid % 65536) # formatID

\* the bounds check with > for >=
OrdinalOOBStrict(o, n) == o > n

\* the bounds check of toPK: int(o) >= len(p.Cards)
OrdinalOOB(o, n) == o >= n

\* toPK on the cards put in ascending order first
toPKSorted(cards, o) ==
    IF OrdinalOOB(o, Len(cards)) THEN [pk |-> 0, err |-> ErrOrdinalOOB]
    ELSE IF o + 1 \in DOMAIN cards THEN [pk |-> SortOrds(cards)[o + 1], err |-> Nil]
    ELSE [pk |-> 0, err |-> PanicIndex]

\* toPK(o); indexing p.Cards past its end panics
toPK(cards, o) ==
    IF OrdinalOOB(o, Len(cards)) THEN [pk |-> 0, err |-> ErrOrdinalOOB]
    ELSE IF o + 1 \in DOMAIN cards THEN [pk |-> cards[o + 1], err |-> Nil]
    ELSE [pk |-> 0, err |-> PanicIndex]

\* a map whose entries are not written twice
MapPutOnce(D, pk, c) == [k \in DOMAIN D \cup {pk} |-> IF k \in DOMAIN D THEN D[k] ELSE c]

\* D[pk] = c on a map
MapPut(D, pk, c) == [k \in DOMAIN D \cup {pk} |-> IF k = pk THEN c ELSE D[k]]

\* the count of a deck entry without the + 1
CountOfStored(cm1) == cm1 % 256

\* the count of a deck entry: uint8(cm1) + 1
CountOf(cm1) == ((cm1 % 256) + 1) % 256

\* the loop of the leader and of the tactics section: n ordinals read from br
\* and appended to L, one half of them after the other; oob tells that an
\* ordinal not below len(cards) was read
RECURSIVE readOrds(_, _, _, _, _)
readOrds(br, n, ib, cards, L) ==
    IF n = 0 THEN [br |-> br, pks |-> L, err |-> Nil, oob |-> FALSE]
    ELSE IF n = 1
    THEN LET o == ReadBits(br, ib) IN
         IF o.err # Nil THEN [br |-> o.r, pks |-> <<>>, err |-> o.err, oob |-> FALSE]
         ELSE LET pk == toPK(cards, o.out) IN
              IF pk.err # Nil
              THEN [br |-> o.r, pks |-> <<>>, err |-> pk.err, oob |-> o.out >= Len(cards)]
              ELSE [br |-> o.r, pks |-> Append(L, pk.pk), err |-> Nil, oob |-> FALSE]
    ELSE LET first == readOrds(br, n \div 2, ib, cards, L) IN
         IF first.err # Nil THEN first
         ELSE readOrds(first.br, n - (n \div 2), ib, cards, first.pks)

\* the loop of the deck section: n pairs (ordinal, count-1) read from br and
\* put into D, one half of them after the other
RECURSIVE readPairs(_, _, _, _, _)
readPairs(br, n, ib, cards, D) ==
    IF n = 0 THEN [br |-> br, deck |-> D, err |-> Nil, oob |-> FALSE]
    ELSE IF n = 1
    THEN LET o == ReadBits(br, ib) IN
         IF o.err # Nil THEN [br |-> o.r, deck |-> EmptyMap, err |-> o.err, oob |-> FALSE]
         ELSE LET cm1 == ReadBits(o.r, 2) IN
              IF cm1.err # Nil
              THEN [br |-> cm1.r, deck |-> EmptyMap, err |-> cm1.err,
                    oob |-> o.out >= Len(cards)]
              ELSE LET pk == toPK(cards, o.out) IN
                   IF pk.err # Nil
                   THEN [br |-> cm1.r, deck |-> EmptyMap, err |-> pk.err,
                         oob |-> o.out >= Len(cards)]
                   ELSE [br |-> cm1.r, deck |-> MapPut(D, pk.pk, CountOf(cm1.out)),
                         err |-> Nil, oob |-> FALSE]
    ELSE LET first == readPairs(br, n \div 2, ib, cards, D) IN
         IF first.err # Nil THEN first
         ELSE readPairs(first.br, n - (n \div 2), ib, cards, first.deck)

\* a return that takes a whole byte left unread for an error
DeckOutputWhole(fid, L, T, D, br) ==
    IF br.rem >= 8 THEN DecFail("deckcodec: trailing data", br, "none")
    ELSE [out |-> [FormatID |-> fid, Leader |-> L, Tactics |-> T, Deck |-> D],
          err |-> Nil, br |-> br, oob |-> "none"]

\* return DeckOutput{FormatID: p.FormatID, Leader: L, Tactics: T, Deck: D}, nil,
\* whatever the reader br has left
DeckOutput(fid, L, T, D, br) ==
    [out |-> [FormatID |-> fid, Leader |-> L, Tactics |-> T, Deck |-> D],
     err |-> Nil, br |-> br, oob |-> "none"]

\* Decode(p, code): the deck and the error, and beside them the bit reader as
\* the call leaves it and the section in which an ordinal not below
\* len(p.Cards) was read ("none" when every ordinal read was below it)
Decode(pack, code) ==
    LET b64 == DecodeString(code) IN
    IF b64.err # Nil THEN DecFail(b64.err, NewReader(<<>>, 0), "none")
    ELSE
    LET ib == idBits(Len(pack.Cards))
        br == NewReader(b64.raw, Len(b64.raw) * 8)
        fid == ReadBits(br, 16)
    IN
    IF fid.err # Nil THEN DecFail(fid.err, fid.r, "none")
    ELSE IF HeaderMismatch(fid.out, pack.FormatID)
    THEN DecFail(ErrFormatMismatch, fid.r, "none")
    ELSE
    LET nL == ReadBits(fid.r, 8) IN
    IF nL.err # Nil THEN DecFail(nL.err, nL.r, "none")
    ELSE
    LET L == readOrds(nL.r, nL.out, ib, pack.Cards, <<>>) IN
    IF L.err # Nil
    THEN DecFail(L.err, L.br, IF L.oob THEN "leader" ELSE "none")
    ELSE
    LET nT == ReadBits(L.br, 8) IN
    IF nT.err # Nil THEN DecFail(nT.err, nT.r, "none")
    ELSE
    LET T == readOrds(nT.r, nT.out, ib, pack.Cards, <<>>) IN
    IF T.err # Nil
    THEN DecFail(T.err, T.br, IF T.oob THEN "tactics" ELSE "none")
    ELSE
    LET nD == ReadBits(T.br, 8) IN
    IF nD.err # Nil THEN DecFail(nD.err, nD.r, "none")
    ELSE
    LET D == readPairs(nD.r, nD.out, ib, pack.Cards, EmptyMap) IN
    IF D.err # Nil
    THEN DecFail(D.err, D.br, IF D.oob THEN "deck" ELSE "none")
    ELSE DeckOutput(pack.FormatID, L.pks, T.pks, D.deck, D.br)

(***************************************************************************)
(* The inputs: packs and decks                                             *)
(***************************************************************************)

\* the largest deck the inputs hold: the entries of its three sections together
MaxEntries == 2

\* the card identifiers
Ids == {1, 2, 3}

\* the FormatID of a pack (uint16): zero, a small one and one above a byte
FormatIDs == {0, 1, 257}

\* the counts of a main-deck entry (uint8): 1..4 and both sides of the range
Counts == {0, 1, 2, 4, 5}

SeqsUpTo(S, n) == UNION {[1..k -> S] : k \in 0..n}

Range(s) == {s[i] : i \in DOMAIN s}

IsAscending(s) == \A i \in 1..(Len(s) - 1) : s[i] <= s[i + 1]

\* the longest pack the inputs hold
MaxCards == 3

\* the Cards of a pack as LoadPack and BuildPack leave them: ascending,
\* duplicates kept
CardLists == {c \in SeqsUpTo(Ids, MaxCards) : IsAscending(c)}

AllCards == <<1, 2, 3>>

Packs == {[FormatID |-> 257, Cards |-> c] : c \in CardLists}
             \cup {[FormatID |-> 0, Cards |-> c] : c \in {<<>>, AllCards}}

EmptyDeck == [Leader |-> <<>>, Tactics |-> <<>>, Deck |-> EmptyMap]

\* the main-deck maps of n entries
Maps(n) == UNION {[K -> Counts] : K \in {K \in SUBSET Ids : Cardinality(K) = n}}

\* the sizes of three sections with at most n entries together
Splits(n) == {s \in (0..n) \X (0..n) \X (0..n) : s[1] + s[2] + s[3] <= n}

Decks == UNION {[Leader : [1..s[1] -> Ids], Tactics : [1..s[2] -> Ids], Deck : Maps(s[3])] :
                   s \in Splits(MaxEntries)}

\* the orders a range over a map may visit its keys in
KeyOrders(d) ==
    {k \in [1..Cardinality(DOMAIN d) -> DOMAIN d] : Range(k) = DOMAIN d}

NoEnc == [code |-> <<>>, err |-> "none", bw |-> NewWriter]
NoDec == [out |-> ZeroOutput, err |-> "none", br |-> NewReader(<<>>, 0), oob |-> "none"]
NoPack == [FormatID |-> 0, Cards |-> <<>>]

\* a ReadBits call not yet made
NoRead == [width |-> 0, out |-> 0, err |-> "none", left |-> 0]

\* no Writer or Reader in use
IdleBits ==
    /\ wr = NewWriter
    /\ wrote = <<>>
    /\ flushed = <<>>
    /\ rdr = NewReader(<<>>, 0)
    /\ rd = NoRead
    /\ got = <<>>
    /\ used = [valid |-> 0, bits |-> 0, calls |-> 0]

\* no helper function called
IdleFn == arg = <<>> /\ res = <<>>

\* no Encode or Decode call made
IdleCodec ==
    /\ p = NoPack
    /\ in = EmptyDeck
    /\ order = <<>>
    /\ enc = NoEnc
    /\ str = <<>>
    /\ q = NoPack
    /\ dec = NoDec
    /\ in2 = EmptyDeck
    /\ order2 = <<>>
    /\ enc2 = NoEnc

(***************************************************************************)
(* The calls on a deck: Encode, then Decode of the code or of a prefix of  *)
(* its bytes, or Encode again on a rearranged deck                         *)
(***************************************************************************)

Init ==
    /\ p \in Packs
    /\ in \in Decks
    /\ order = <<>>
    /\ enc = NoEnc
    /\ str = <<>>
    /\ q = NoPack
    /\ dec = NoDec
    /\ in2 = EmptyDeck
    /\ order2 = <<>>
    /\ enc2 = NoEnc
    /\ IdleBits
    /\ IdleFn
    /\ pc = "deck"

\* code, err := Encode(p, in)
EncodeCall ==
    /\ pc = "deck"
    /\ \E keys \in KeyOrders(in.Deck) :
          /\ order' = keys
          /\ enc' = Encode(p, in, keys)
    /\ str' = enc'.code
    /\ pc' = "encoded"
    /\ UNCHANGED <<p, in, q, dec, in2, order2, enc2>>
    /\ UNCHANGED <<bitVars, fnVars>>

\* the packs a code made against pk is decoded against: the Cards of pk, whole
\* or without the last card, under any FormatID
DecodePacks(pk) ==
    {[FormatID |-> f, Cards |-> c] :
        f \in FormatIDs,
        c \in {pk.Cards, SubSeq(pk.Cards, 1, Len(pk.Cards) - 1)}}

\* out, err := Decode(q, code) on the code Encode returned
DecodeCall ==
    /\ pc = "encoded"
    /\ enc.err = Nil
    /\ \E pk \in DecodePacks(p) :
          /\ q' = pk
          /\ dec' = Decode(pk, str)
    /\ pc' = "decoded"
    /\ UNCHANGED <<p, in, order, enc, str, in2, order2, enc2>>
    /\ UNCHANGED <<bitVars, fnVars>>

\* Decode(p, .) on the byte stream of the code cut down to its first k bytes
DecodeTruncated ==
    /\ pc = "encoded"
    /\ enc.err = Nil
    /\ \E k \in 0..(Len(enc.bw.Buf) - 1) :
          str' = EncodeToString(SubSeq(enc.bw.Buf, 1, k))
    /\ q' = p
    /\ dec' = Decode(p, str')
    /\ pc' = "truncated"
    /\ UNCHANGED <<p, in, order, enc, in2, order2, enc2>>
    /\ UNCHANGED <<bitVars, fnVars>>

\* the decks with the same set of leaders, the same set of tactics and the same
\* main-deck map as deck, their lists at most one entry longer
SetEqualDecks(deck) ==
    {[Leader |-> l, Tactics |-> t, Deck |-> deck.Deck] :
        l \in {l \in SeqsUpTo(Range(deck.Leader), Len(deck.Leader) + 1) :
                  Range(l) = Range(deck.Leader)},
        t \in {t \in SeqsUpTo(Range(deck.Tactics), Len(deck.Tactics) + 1) :
                  Range(t) = Range(deck.Tactics)}}

\* a second Encode(p, .) call, on a deck set-equal to the deck of a first call
\* that returned a code
EncodeAgain ==
    /\ pc = "encoded"
    /\ enc.err = Nil
    /\ \E d \in SetEqualDecks(in), keys \in KeyOrders(in.Deck) :
          /\ in2' = d
          /\ order2' = keys
          /\ enc2' = Encode(p, d, keys)
    /\ pc' = "reencoded"
    /\ UNCHANGED <<p, in, order, enc, str, q, dec>>
    /\ UNCHANGED <<bitVars, fnVars>>

Next == EncodeCall \/ DecodeCall \/ DecodeTruncated \/ EncodeAgain

Spec == Init /\ [][Next]_vars

(***************************************************************************)
(* The calls on a received string: Decode of a byte stream that holds any  *)
(* ordinals and counts, whole or cut short                                 *)
(***************************************************************************)

\* the largest number of entries a received stream holds
MaxFields == 3

\* the bytes of a stream with the header fid, the leader ordinals L, the
\* tactics ordinals T and the deck pairs D, in fields of ib bits
WireBytes(fid, L, T, D, ib) ==
    Finish(WritePairs(
        WriteBits(WriteOrds(
            WriteBits(WriteOrds(
                WriteBits(WriteBits(NewWriter, fid, 16), Len(L), 8), L, ib),
                Len(T), 8), T, ib),
            Len(D), 8), D, ib)).Buf

\* the strings received for a pack: every stream of at most MaxFields entries
\* with ordinals of idBits bits, whole or without its last byte
Received(pack) ==
    LET ib == idBits(Len(pack.Cards))
        ords == 0..(2 ^ ib - 1)
        pairs == [o : ords, c : {1, 4}]
        fields == UNION {[L : [1..s[1] -> ords], T : [1..s[2] -> ords], D : [1..s[3] -> pairs]] :
                            s \in Splits(MaxFields)}
    IN  {EncodeToString(SubSeq(w.b, 1, Len(w.b) - w.cut)) :
            w \in {[b |-> WireBytes(pack.FormatID, f.L, f.T, f.D, ib), cut |-> c] :
                      f \in fields, c \in {0, 1}}}

InitReceived ==
    /\ p \in {[FormatID |-> 257, Cards |-> SubSeq(AllCards, 1, n)] : n \in 0..Len(AllCards)}
    /\ str \in Received(p)
    /\ in = EmptyDeck
    /\ order = <<>>
    /\ enc = NoEnc
    /\ q = NoPack
    /\ dec = NoDec
    /\ in2 = EmptyDeck
    /\ order2 = <<>>
    /\ enc2 = NoEnc
    /\ IdleBits
    /\ IdleFn
    /\ pc = "code"

\* out, err := Decode(p, code) on a received string
DecodeReceived ==
    /\ pc = "code"
    /\ q' = p
    /\ dec' = Decode(p, str)
    /\ pc' = "parsed"
    /\ UNCHANGED <<p, in, order, enc, str, in2, order2, enc2>>
    /\ UNCHANGED <<bitVars, fnVars>>

NextReceived == DecodeReceived

SpecReceived == InitReceived /\ [][NextReceived]_vars

(***************************************************************************)
(* The calls on a deck whose sections are as long as the 8-bit count field *)
(* allows, and longer                                                      *)
(***************************************************************************)

\* a pack of more cards than a section may hold
LongCards == [i \in 1..(MaxSection + 2) |-> i]

\* the section lengths: empty, one entry, the longest allowed, one more
LongLens == {0, 1, MaxSection, MaxSection + 1}

\* a list of n identifiers of LongCards, descending
LongList(n) == [i \in 1..n |-> n + 1 - i]

\* a main-deck map of n identifiers of LongCards, counts 1..4
LongMap(n) == [k \in 1..n |-> (k % 4) + 1]

InitLong ==
    /\ p = [FormatID |-> 257, Cards |-> LongCards]
    /\ in \in {[Leader |-> LongList(a), Tactics |-> LongList(b), Deck |-> LongMap(c)] :
                  a \in LongLens, b \in LongLens, c \in LongLens}
    /\ order = <<>>
    /\ enc = NoEnc
    /\ str = <<>>
    /\ q = NoPack
    /\ dec = NoDec
    /\ in2 = EmptyDeck
    /\ order2 = <<>>
    /\ enc2 = NoEnc
    /\ IdleBits
    /\ IdleFn
    /\ pc = "deck"

\* code, err := Encode(p, in), the map ranged over upwards or downwards
EncodeLongCall ==
    /\ pc = "deck"
    /\ \E keys \in {[i \in 1..Cardinality(DOMAIN in.Deck) |-> i],
                    LongList(Cardinality(DOMAIN in.Deck))} :
          /\ order' = keys
          /\ enc' = Encode(p, in, keys)
    /\ str' = enc'.code
    /\ pc' = "encoded"
    /\ UNCHANGED <<p, in, q, dec, in2, order2, enc2>>
    /\ UNCHANGED <<bitVars, fnVars>>

NextLong == EncodeLongCall \/ DecodeCall

SpecLong == InitLong /\ [][NextLong]_vars

(***************************************************************************)
(* The calls on a Writer: WriteBits calls, Finish, Finish again, and the   *)
(* fields read back from a Reader on the bytes                             *)
(***************************************************************************)

\* the largest number of WriteBits calls on a Writer
MaxWrites == 2

\* the widths of a field: the ends of 0..32, widths within a byte, a whole
\* byte and a width across bytes
Widths == {0, 1, 3, 5, 8, 13, 32}

\* the values written: no bit set, 10101b, and every bit of the 31 set
WriteValues == {0, 21, 2147483647}

\* the bits written so far
TotalBits(fields) ==
    IF Len(fields) = 0 THEN 0
    ELSE LET sum[i \in 0..Len(fields)] ==
                 IF i = 0 THEN 0 ELSE sum[i - 1] + fields[i].width
         IN  sum[Len(fields)]

InitBits ==
    /\ IdleCodec
    /\ IdleBits
    /\ IdleFn
    /\ pc = "writing"

\* w.WriteBits(v, width)
WriteCall ==
    /\ pc = "writing"
    /\ Len(wrote) < MaxWrites
    /\ \E v \in WriteValues, width \in Widths :
          /\ wr' = WriteBits(wr, v, width)
          /\ wrote' = Append(wrote, [v |-> v, width |-> width])
    /\ UNCHANGED <<codecVars, pc, flushed, rdr, rd, got, used, fnVars>>

\* buf := w.Finish(), the first and the second time
FinishCall ==
    /\ pc \in {"writing", "finished"}
    /\ Len(flushed) < 2
    /\ wr' = Finish(wr)
    /\ flushed' = Append(flushed, wr'.Buf)
    /\ pc' = "finished"
    /\ UNCHANGED <<codecVars, wrote, rdr, rd, got, used, fnVars>>

\* r := NewReader(buf, totalBits)
OpenReader ==
    /\ pc = "finished"
    /\ rdr' = NewReader(wr.Buf, TotalBits(wrote))
    /\ used' = [valid |-> TotalBits(wrote), bits |-> 0, calls |-> 0]
    /\ pc' = "reading"
    /\ UNCHANGED <<codecVars, wr, wrote, flushed, rd, got, fnVars>>

\* got, err := r.ReadBits(width), with the width of the next field written
ReadBack ==
    /\ pc = "reading"
    /\ Len(got) < Len(wrote)
    /\ LET width == wrote[Len(got) + 1].width
           x == ReadBits(rdr, width)
       IN  /\ rdr' = x.r
           /\ rd' = [width |-> width, out |-> x.out, err |-> x.err,
                     left |-> used.valid - used.bits]
           /\ got' = Append(got, [out |-> x.out, err |-> x.err])
           /\ used' = [used EXCEPT !.bits = @ + (IF x.err = Nil THEN width ELSE 0),
                                   !.calls = @ + 1]
    /\ UNCHANGED <<codecVars, pc, wr, wrote, flushed, fnVars>>

NextBits == WriteCall \/ FinishCall \/ OpenReader \/ ReadBack

SpecBits == InitBits /\ [][NextBits]_vars

(***************************************************************************)
(* The calls on a Reader over any bytes, with any number of them declared  *)
(* valid                                                                   *)
(***************************************************************************)

\* the longest source a Reader is given
MaxSrc == 4

\* the largest number of ReadBits calls on a Reader
MaxReads == 3

\* the bytes of a source: 00010101b and 11111111b
SrcBytes == {21, 255}

\* the numbers of valid bits a Reader on n bytes is given: none, five, all but
\* one and all
ValidBits(n) == {v \in {0, 5, 8 * n - 1, 8 * n} : 0 <= v /\ v <= 8 * n}

\* bit k (from 1) of what r has not yet handed out: the bits it holds, then
\* the bytes of Src it has not loaded, then zero
UnreadBit(r, k) ==
    IF k <= r.nbits THEN (IF k <= Len(r.acc) THEN r.acc[k] ELSE 0)
    ELSE LET j == k - r.nbits - 1
             i == r.cur + 1 + (j \div 8)
         IN  IF i <= Len(r.Src) THEN BitOf(r.Src[i], (j % 8) + 1) ELSE 0

InitReader ==
    /\ IdleCodec
    /\ IdleFn
    /\ wr = NewWriter
    /\ wrote = <<>>
    /\ flushed = <<>>
    /\ rd = NoRead
    /\ got = <<>>
    /\ \E src \in SeqsUpTo(SrcBytes, MaxSrc) :
          \E v \in ValidBits(Len(src)) :
              /\ rdr = NewReader(src, v)
              /\ used = [valid |-> v, bits |-> 0, calls |-> 0]
    /\ pc = "open"

\* out, err := r.ReadBits(width) with any width; a value read is a number below
\* 2^31, so 32 bits are read only where the last of them is zero
ReadCall ==
    /\ pc = "open"
    /\ used.calls < MaxReads
    /\ \E width \in Widths :
          /\ (width = 32) => (UnreadBit(rdr, 32) = 0)
          /\ LET x == ReadBits(rdr, width)
             IN  /\ rdr' = x.r
                 /\ rd' = [width |-> width, out |-> x.out, err |-> x.err,
                           left |-> used.valid - used.bits]
                 /\ used' = [used EXCEPT !.bits = @ + (IF x.err = Nil THEN width ELSE 0),
                                         !.calls = @ + 1]
    /\ UNCHANGED <<codecVars, pc, wr, wrote, flushed, got, fnVars>>

NextReader == ReadCall

SpecReader == InitReader /\ [][NextReader]_vars

(***************************************************************************)
(* idBits on a dictionary size, and an ordinal of that dictionary written  *)
(* in the width it returns                                                 *)
(***************************************************************************)

MaxM == 300

InitIdBits ==
    /\ IdleCodec
    /\ IdleBits
    /\ \E m \in (-1)..MaxM : arg = [m |-> m, o |-> 0]
    /\ res = <<>>
    /\ pc = "size"

\* ib := idBits(len(p.Cards))
IdBitsCall ==
    /\ pc = "size"
    /\ res' = [b |-> idBits(arg.m)]
    /\ pc' = "width"
    /\ UNCHANGED <<codecVars, bitVars, arg>>

\* bw.WriteBits(o, ib) on an ordinal of the dictionary, then bw.Finish()
WriteOrdinal ==
    /\ pc = "width"
    /\ arg.m >= 1
    /\ \E o \in {0, (arg.m - 1) \div 2, arg.m - 1} :
          /\ arg' = [arg EXCEPT !.o = o]
          /\ wr' = Finish(WriteBits(NewWriter, o, res.b))
    /\ pc' = "written"
    /\ UNCHANGED <<codecVars, wrote, flushed, rdr, rd, got, used, res>>

NextIdBits == IdBitsCall \/ WriteOrdinal

SpecIdBits == InitIdBits /\ [][NextIdBits]_vars

(***************************************************************************)
(* The membership filter: a filter built from the cards of a pack or put   *)
(* together by hand, then queried with a list of identifiers               *)
(***************************************************************************)

\* the pairs of digests (h1, h2) an identifier may hash to under the two salts
DigestPairs == {<<70, 0>>, <<3, 1>>}

\* the salted hash: a pair of digests for every identifier
HashTables == [Ids -> DigestPairs]

\* target false-positive rates, in thousandths
Rates == {0, 10, 500, 1000}

\* -ln(p) / (ln 2)^2 in thousandths of a bit, for the rates 0.01 and 0.5
BitsPerElement(rate) == IF rate = 10 THEN 9585 ELSE 1443

\* m = ceil(-n ln p / (ln 2)^2) rounded up to a multiple of 64, and
\* k = max(1, round((m / n) ln 2)); m = 0, k = 0 for no filter
optimalBloomParams(n, rate) ==
    IF n <= 0 \/ rate <= 0 \/ rate >= 1000 THEN [m |-> 0, k |-> 0]
    ELSE LET raw == (n * BitsPerElement(rate) + 999) \div 1000
             m == ((raw + 63) \div 64) * 64
             k == (2 * m * 693 + 1000 * n) \div (2000 * n)
         IN  [m |-> m, k |-> IF k < 1 THEN 1 ELSE k]

\* a nil *BloomMeta
NilBloom == [nil |-> TRUE, MBits |-> 0, K |-> 0, BitsB64 |-> <<>>]

\* &BloomMeta{}: m = 0, k = 0, no bit data
EmptyBloom == [nil |-> FALSE, MBits |-> 0, K |-> 0, BitsB64 |-> <<>>]

\* the k bit positions (h1 + i*h2) mod m of an identifier
BloomPositions(h, pk, m, k) == {(h[pk][1] + i * h[pk][2]) % m : i \in 0..(k - 1)}

\* bit i of a bit array: position i mod 8 of byte i div 8
BitSet(raw, i) == (raw[(i \div 8) + 1] \div (2 ^ (i % 8))) % 2 = 1

\* the filter of a sorted identifier set at a target rate
buildBloomForCards(h, cards, rate) ==
    LET pr == optimalBloomParams(Len(cards), rate) IN
    IF pr.m = 0 THEN EmptyBloom
    ELSE LET set == UNION {BloomPositions(h, cards[i], pr.m, pr.k) : i \in DOMAIN cards}
             on(i) == IF i \in set THEN 1 ELSE 0
             raw == [j \in 1..(pr.m \div 8) |->
                        LET z == 8 * (j - 1) IN
                        on(z) + 2 * on(z + 1) + 4 * on(z + 2) + 8 * on(z + 3)
                            + 16 * on(z + 4) + 32 * on(z + 5) + 64 * on(z + 6)
                            + 128 * on(z + 7)]
         IN  [nil |-> FALSE, MBits |-> pr.m, K |-> pr.k, BitsB64 |-> EncodeToString(raw)]

\* b.MayContain(pk): true for a filter that is absent, empty or does not
\* decode to MBits bits, and otherwise whether every bit of pk is set
MayContain(h, b, pk) ==
    IF b.nil \/ b.MBits = 0 \/ b.K = 0 THEN TRUE
    ELSE LET d == DecodeString(b.BitsB64) IN
         IF d.err # Nil \/ Len(d.raw) = 0 \/ 8 * Len(d.raw) # b.MBits THEN TRUE
         ELSE \A i \in BloomPositions(h, pk, b.MBits, b.K) : BitSet(d.raw, i)

\* the loop with the test of MayContain turned round
MayContainAllInverted(h, b, pks) ==
    LET fails == {i \in DOMAIN pks : ~b.nil /\ MayContain(h, b, pks[i])} IN
    IF fails = {} THEN [ok |-> TRUE, asked |-> IF b.nil THEN 0 ELSE Len(pks)]
    ELSE [ok |-> FALSE, asked |-> CHOOSE i \in fails : \A j \in fails : i <= j]

\* the loop with a nil filter taken for a failure
MayContainAllNilFails(h, b, pks) ==
    LET fails == {i \in DOMAIN pks : b.nil \/ ~MayContain(h, b, pks[i])} IN
    IF fails = {} THEN [ok |-> TRUE, asked |-> Len(pks)]
    ELSE [ok |-> FALSE, asked |-> IF b.nil THEN 0 ELSE CHOOSE i \in fails : \A j \in fails : i <= j]

\* the loop left after its first identifier
MayContainAllFirstOnly(h, b, pks) ==
    IF pks = <<>> \/ b.nil THEN [ok |-> TRUE, asked |-> 0]
    ELSE [ok |-> MayContain(h, b, pks[1]), asked |-> 1]

\* MayContainAll(b, pks): false at the first pk that a non-nil b does not
\* contain, true when the loop ends; asked counts the calls of b.MayContain
MayContainAll(h, b, pks) ==
    LET fails == {i \in DOMAIN pks : ~b.nil /\ ~MayContain(h, b, pks[i])} IN
    IF fails = {} THEN [ok |-> TRUE, asked |-> IF b.nil THEN 0 ELSE Len(pks)]
    ELSE [ok |-> FALSE, asked |-> CHOOSE i \in fails : \A j \in fails : i <= j]

MaxPks == 2

\* the card sets of a pack: ascending, no duplicates
BloomCards == {c \in SeqsUpTo(Ids, MaxCards) : \A i \in 1..(Len(c) - 1) : c[i] < c[i + 1]}

\* the base64 text of 8 zero bytes
ZeroBits == EncodeToString([j \in 1..8 |-> 0])

\* filters put together by hand
Crafted ==
    [nil     |-> NilBloom,
     empty   |-> EmptyBloom,
     zeroed  |-> [nil |-> FALSE, MBits |-> 64, K |-> 2, BitsB64 |-> ZeroBits],
     badchar |-> [nil |-> FALSE, MBits |-> 64, K |-> 2,
                  BitsB64 |-> <<CharBad>> \o Tail(ZeroBits)],
     short   |-> [nil |-> FALSE, MBits |-> 64, K |-> 2,
                  BitsB64 |-> EncodeToString([j \in 1..7 |-> 0])],
     nobits  |-> [nil |-> FALSE, MBits |-> 64, K |-> 2, BitsB64 |-> <<>>]]

NoQuery == [pks |-> <<>>, ok |-> TRUE, asked |-> 0]

InitBloom ==
    /\ IdleCodec
    /\ IdleBits
    /\ \E h \in HashTables, cards \in BloomCards, rate \in Rates :
          arg = [h |-> h, cards |-> cards, rate |-> rate]
    /\ res = <<>>
    /\ pc = "cards"

\* bl, err := buildBloomForCards(cards, rate), and bl.MayContain on every
\* identifier
BuildCall ==
    /\ pc = "cards"
    /\ LET bl == buildBloomForCards(arg.h, arg.cards, arg.rate) IN
       res' = [kind |-> "built", bloom |-> bl,
               each |-> [id \in Ids |-> MayContain(arg.h, bl, id)],
               query |-> NoQuery]
    /\ pc' = "filter"
    /\ UNCHANGED <<codecVars, bitVars, arg>>

\* a filter that is nil, empty, all zero or corrupt, and bl.MayContain on
\* every identifier
CraftCall ==
    /\ pc = "cards"
    /\ \E kind \in DOMAIN Crafted :
          res' = [kind |-> kind, bloom |-> Crafted[kind],
                  each |-> [id \in Ids |-> MayContain(arg.h, Crafted[kind], id)],
                  query |-> NoQuery]
    /\ pc' = "filter"
    /\ UNCHANGED <<codecVars, bitVars, arg>>

\* MayContainAll(bl, pks)
QueryCall ==
    /\ pc = "filter"
    /\ \E pks \in SeqsUpTo(Ids, MaxPks) :
          LET r == MayContainAll(arg.h, res.bloom, pks) IN
          res' = [res EXCEPT !.query = [pks |-> pks, ok |-> r.ok, asked |-> r.asked]]
    /\ pc' = "queried"
    /\ UNCHANGED <<codecVars, bitVars, arg>>

NextBloom == BuildCall \/ CraftCall \/ QueryCall

SpecBloom == InitBloom /\ [][NextBloom]_vars

(***************************************************************************)
(* UniqSortedPKsFromDeck on a deck                                         *)
(***************************************************************************)

\* the dedup loop that counts a new value without moving it down
RECURSIVE DedupNoMove(_, _, _)
DedupNoMove(out, w, i) ==
    IF i >= Len(out) THEN [out |-> out, w |-> w]
    ELSE IF out[i + 1] # out[w] THEN DedupNoMove(out, w + 1, i + 1)
    ELSE DedupNoMove(out, w, i + 1)

\* the in-place dedup loop from index i on, w values kept so far; out[i] of
\* the code is out[i + 1] here
RECURSIVE Dedup(_, _, _)
Dedup(out, w, i) ==
    IF i >= Len(out) THEN [out |-> out, w |-> w]
    ELSE IF out[i + 1] # out[w]
    THEN Dedup([out EXCEPT ![w + 1] = out[i + 1]], w + 1, i + 1)
    ELSE Dedup(out, w, i + 1)

\* UniqSortedPKsFromDeck with the loop that does not move
UniqSortedNoMove(deck, keys) ==
    LET all == deck.Leader \o deck.Tactics \o keys IN
    IF Len(all) = 0
    THEN [out |-> all, Leader |-> deck.Leader, Tactics |-> deck.Tactics]
    ELSE LET d == DedupNoMove(SortOrds(all), 1, 1) IN
         [out |-> SubSeq(d.out, 1, d.w), Leader |-> deck.Leader, Tactics |-> deck.Tactics]

\* UniqSortedPKsFromDeck(in), the map ranged over in the order keys: the
\* slice returned, and the Leader and Tactics of the caller after the call
\* (out is a slice of its own, so the appends copy)
UniqSortedPKsFromDeck(deck, keys) ==
    LET all == deck.Leader \o deck.Tactics \o keys IN
    IF Len(all) = 0
    THEN [out |-> all, Leader |-> deck.Leader, Tactics |-> deck.Tactics]
    ELSE LET d == Dedup(SortOrds(all), 1, 1) IN
         [out |-> SubSeq(d.out, 1, d.w), Leader |-> deck.Leader, Tactics |-> deck.Tactics]

MaxUniq == 3

\* decks of at most MaxUniq entries, copies of 1 or 4
UniqDecks ==
    UNION {[Leader : [1..s[1] -> Ids], Tactics : [1..s[2] -> Ids],
            Deck : UNION {[K -> {1, 4}] : K \in {K \in SUBSET Ids : Cardinality(K) = s[3]}}] :
              s \in Splits(MaxUniq)}

InitUniq ==
    /\ IdleCodec
    /\ IdleBits
    /\ \E deck \in UniqDecks : arg = [deck |-> deck, keys |-> <<>>]
    /\ res = <<>>
    /\ pc = "deck"

\* uniq := UniqSortedPKsFromDeck(in)
UniqCall ==
    /\ pc = "deck"
    /\ \E keys \in KeyOrders(arg.deck.Deck) :
          /\ arg' = [arg EXCEPT !.keys = keys]
          /\ res' = UniqSortedPKsFromDeck(arg.deck, keys)
    /\ pc' = "uniq"
    /\ UNCHANGED <<codecVars, bitVars>>

NextUniq == UniqCall

SpecUniq == InitUniq /\ [][NextUniq]_vars

(***************************************************************************)
(* LoadPack on a pack document                                             *)
(***************************************************************************)

ErrNotExist == "open: no such file or directory"
ErrJSON == "invalid character"

\* LoadPack that leaves the cards as the document has them
LoadPackUnsorted(doc) ==
    IF ~doc.found THEN [pack |-> NoPack, err |-> ErrNotExist]
    ELSE IF ~doc.valid THEN [pack |-> NoPack, err |-> ErrJSON]
    ELSE [pack |-> [FormatID |-> doc.format_id, Cards |-> doc.cards], err |-> Nil]

\* LoadPack that keeps one card of every value
LoadPackDedup(doc) ==
    IF ~doc.found THEN [pack |-> NoPack, err |-> ErrNotExist]
    ELSE IF ~doc.valid THEN [pack |-> NoPack, err |-> ErrJSON]
    ELSE [pack |-> [FormatID |-> doc.format_id,
                    Cards |-> SortOrds(CHOOSE c \in [1..Cardinality(Range(doc.cards)) -> Range(doc.cards)] :
                                          Range(c) = Range(doc.cards))],
          err |-> Nil]

\* LoadPack(path) on a file that is missing, is not JSON, or holds format_id
\* and cards: os.ReadFile, json.Unmarshal, slices.Sort(pack.Cards)
LoadPack(doc) ==
    IF ~doc.found THEN [pack |-> NoPack, err |-> ErrNotExist]
    ELSE IF ~doc.valid THEN [pack |-> NoPack, err |-> ErrJSON]
    ELSE [pack |-> [FormatID |-> doc.format_id, Cards |-> SortOrds(doc.cards)], err |-> Nil]

\* the longest cards array of a document
MaxDocCards == 4

\* the card identifiers of a document
DocIds == {2, 3, 5}

\* the files LoadPack is called on
Docs ==
    {[found |-> TRUE, valid |-> TRUE, format_id |-> f, cards |-> c] :
        f \in FormatIDs, c \in SeqsUpTo(DocIds, MaxDocCards)}
    \cup {[found |-> TRUE, valid |-> FALSE, format_id |-> 1, cards |-> <<2, 3>>],
          [found |-> FALSE, valid |-> FALSE, format_id |-> 0, cards |-> <<>>]}

InitLoad ==
    /\ IdleCodec
    /\ IdleBits
    /\ arg \in Docs
    /\ res = <<>>
    /\ pc = "file"

\* p, err := LoadPack(path)
LoadCall ==
    /\ pc = "file"
    /\ res' = LoadPack(arg)
    /\ pc' = "loaded"
    /\ UNCHANGED <<codecVars, bitVars, arg>>

NextLoad == LoadCall

SpecLoad == InitLoad /\ [][NextLoad]_vars

(***************************************************************************)
(* Encode and Decode on a pack whose Cards are in any order, each beside   *)
(* the same call on the pack with its Cards sorted                         *)
(***************************************************************************)

\* packs as a caller may build them by hand: Cards in any order
AnyOrderPacks == {[FormatID |-> 257, Cards |-> c] : c \in SeqsUpTo(Ids, MaxCards)}

\* decks of at most MaxEntries entries, copies of 1 or 4
SmallDecks ==
    UNION {[Leader : [1..s[1] -> Ids], Tactics : [1..s[2] -> Ids],
            Deck : UNION {[K -> {1, 4}] : K \in {K \in SUBSET Ids : Cardinality(K) = s[3]}}] :
              s \in Splits(MaxEntries)}

\* the pack with slices.Sort applied to its Cards
SortedPack(pack) == [pack EXCEPT !.Cards = SortOrds(pack.Cards)]

InitAnyOrder ==
    /\ p \in AnyOrderPacks
    /\ in \in SmallDecks
    /\ order = <<>>
    /\ enc = NoEnc
    /\ str = <<>>
    /\ q = NoPack
    /\ dec = NoDec
    /\ in2 = EmptyDeck
    /\ order2 = <<>>
    /\ enc2 = NoEnc
    /\ IdleBits
    /\ arg = <<>>
    /\ res = [enc |-> NoEnc, dec |-> NoDec]
    /\ pc = "deck"

\* Encode(p, in), and Encode on the sorted pack
EncodeAnyOrder ==
    /\ pc = "deck"
    /\ \E keys \in KeyOrders(in.Deck) :
          /\ order' = keys
          /\ enc' = Encode(p, in, keys)
          /\ res' = [res EXCEPT !.enc = Encode(SortedPack(p), in, keys)]
    /\ pc' = "encoded"
    /\ UNCHANGED <<p, in, str, q, dec, in2, order2, enc2, bitVars, arg>>

\* Decode(p, code) on a code either Encode call returned, and Decode on the
\* sorted pack
DecodeAnyOrder ==
    /\ pc = "encoded"
    /\ \E r \in {r \in {enc, res.enc} : r.err = Nil} :
          /\ str' = r.code
          /\ dec' = Decode(p, r.code)
          /\ res' = [res EXCEPT !.dec = Decode(SortedPack(p), r.code)]
    /\ q' = p
    /\ pc' = "decoded"
    /\ UNCHANGED <<p, in, order, enc, in2, order2, enc2, bitVars, arg>>

NextAnyOrder == EncodeAnyOrder \/ DecodeAnyOrder

SpecAnyOrder == InitAnyOrder /\ [][NextAnyOrder]_vars

(***************************************************************************)
(* Encode on decks of every kind: short ones with unknown cards and counts *)
(* out of range, on packs good and bad, and ones with a section too long   *)
(***************************************************************************)

\* decks on the long pack with sections empty or one entry too long
OverlongDecks ==
    {[Leader |-> LongList(a), Tactics |-> LongList(b), Deck |-> LongMap(c)] :
        a \in {0, MaxSection + 1}, b \in {0, MaxSection + 1}, c \in {0, MaxSection + 1}}

InitAnyDeck ==
    /\ \/ p \in Packs /\ in \in Decks
       \/ p = [FormatID |-> 257, Cards |-> LongCards] /\ in \in OverlongDecks
    /\ order = <<>>
    /\ enc = NoEnc
    /\ str = <<>>
    /\ q = NoPack
    /\ dec = NoDec
    /\ in2 = EmptyDeck
    /\ order2 = <<>>
    /\ enc2 = NoEnc
    /\ IdleBits
    /\ IdleFn
    /\ pc = "deck"

\* code, err := Encode(p, in)
EncodeAnyDeck ==
    /\ pc = "deck"
    /\ \E keys \in IF Cardinality(DOMAIN in.Deck) > MaxSection
                   THEN {LongList(Cardinality(DOMAIN in.Deck))}
                   ELSE KeyOrders(in.Deck) :
          /\ order' = keys
          /\ enc' = Encode(p, in, keys)
    /\ str' = enc'.code
    /\ pc' = "encoded"
    /\ UNCHANGED <<p, in, q, dec, in2, order2, enc2>>
    /\ UNCHANGED <<bitVars, fnVars>>

\* a second Encode(p, in) call on the same pack and deck, the map ranged over
\* as that execution happens to
EncodeAnyDeckAgain ==
    /\ pc = "encoded"
    /\ \E keys \in IF Cardinality(DOMAIN in.Deck) > MaxSection
                   THEN {LongList(Cardinality(DOMAIN in.Deck))}
                   ELSE KeyOrders(in.Deck) :
          /\ order2' = keys
          /\ enc2' = Encode(p, in, keys)
    /\ in2' = in
    /\ pc' = "reencoded"
    /\ UNCHANGED <<p, in, order, enc, str, q, dec>>
    /\ UNCHANGED <<bitVars, fnVars>>

NextAnyDeck == EncodeAnyDeck \/ EncodeAnyDeckAgain

SpecAnyDeck == InitAnyDeck /\ [][NextAnyDeck]_vars

(***************************************************************************)
(* One pack shared by Encode and Decode calls in any order.  The calls     *)
(* only read the pack and the deck, so concurrent calls are calls one      *)
(* after the other in some order; p and in are the pack and the deck as    *)
(* the calls so far have left them, arg the pack and the deck as they were *)
(***************************************************************************)

\* toOrd that sorts the slice it is given before it maps it
toOrdSortsInput(pks) == SortOrds(pks)

\* the slice pks after toOrd(pks): toOrd reads pks, and appends to and sorts a
\* slice of its own
toOrdLeaves(pks) == pks

\* the deck after Encode(p, in): toOrd is called on Leader, then on Tactics
\* when the leaders were in the pack; the map is only ranged over
EncodeLeaves(pack, deck, keys) ==
    IF PackError(pack) # Nil THEN deck
    ELSE IF toOrd(pack.Cards, deck.Leader).err # Nil
    THEN [deck EXCEPT !.Leader = toOrdLeaves(deck.Leader)]
    ELSE [deck EXCEPT !.Leader = toOrdLeaves(deck.Leader),
                      !.Tactics = toOrdLeaves(deck.Tactics)]

\* the pack after Encode or Decode: FormatID, len(p.Cards) and p.Cards[i] are
\* read, nothing is assigned
PackLeaves(pack) == pack

InitShared ==
    /\ p \in Packs
    /\ in \in SmallDecks
    /\ arg = [pack |-> p, deck |-> in]
    /\ res = <<>>
    /\ order = <<>>
    /\ enc = NoEnc
    /\ str = <<>>
    /\ q = NoPack
    /\ dec = NoDec
    /\ in2 = EmptyDeck
    /\ order2 = <<>>
    /\ enc2 = NoEnc
    /\ IdleBits
    /\ pc = "shared"

\* code, err := Encode(p, in)
EncodeShared ==
    /\ \E keys \in KeyOrders(in.Deck) :
          /\ order' = keys
          /\ enc' = Encode(p, in, keys)
          /\ in' = EncodeLeaves(p, in, keys)
    /\ p' = PackLeaves(p)
    /\ pc' = "encoded"
    /\ UNCHANGED <<str, q, dec, in2, order2, enc2, bitVars, fnVars>>

\* out, err := Decode(p, code) on the last code Encode returned, or on the
\* empty string
DecodeShared ==
    /\ str' = enc.code
    /\ dec' = Decode(p, enc.code)
    /\ p' = PackLeaves(p)
    /\ q' = p
    /\ pc' = "decoded"
    /\ UNCHANGED <<in, order, enc, in2, order2, enc2, bitVars, fnVars>>

NextShared == EncodeShared \/ DecodeShared

SpecShared == InitShared /\ [][NextShared]_vars

(***************************************************************************)
(* Decode on strings of any header: well-formed or not, whole or cut       *)
(* short, with ordinals in and out of range; arg tells how the string was  *)
(* made                                                                    *)
(***************************************************************************)

\* the largest number of entries of such a string
MaxBody == 1

\* the headers of the strings: 257, and two that share a byte with it
Headers == {1, 256, 257}

\* the first bytes of a stream that are kept
Cuts(n) == {k \in {0, 1, 2, n - 1, n} : 0 <= k /\ k <= n}

\* a string that is not base64url: a character outside the alphabet at its
\* end, or one character after the last whole group
Malformed(code, how) ==
    IF how = "character" THEN Append(code, CharBad)
    ELSE IF how = "length" THEN SubSeq(code, 1, 4 * (Len(code) \div 4)) \o <<0>>
    ELSE code

InitHeader ==
    /\ p \in {[FormatID |-> 257, Cards |-> c] : c \in {<<>>, <<1>>, <<1, 2, 3>>}}
    /\ LET ib == idBits(Len(p.Cards))
           ords == 0..(2 ^ ib - 1)
           pairs == [o : ords, c : {4}]
       IN  \E fid \in Headers, s \in Splits(MaxBody) :
           \E L \in [1..s[1] -> ords], T \in [1..s[2] -> ords], D \in [1..s[3] -> pairs] :
           LET raw == WireBytes(fid, L, T, D, ib) IN
           \E k \in Cuts(Len(raw)), how \in {"none", "character", "length"} :
              /\ arg = [fid |-> fid, bytes |-> k, malformed |-> how,
                        whole |-> (k = Len(raw)),
                        oob |-> \/ \E i \in DOMAIN L : L[i] >= Len(p.Cards)
                                \/ \E i \in DOMAIN T : T[i] >= Len(p.Cards)
                                \/ \E i \in DOMAIN D : D[i].o >= Len(p.Cards)]
              /\ str = Malformed(EncodeToString(SubSeq(raw, 1, k)), how)
    /\ res = <<>>
    /\ in = EmptyDeck
    /\ order = <<>>
    /\ enc = NoEnc
    /\ q = NoPack
    /\ dec = NoDec
    /\ in2 = EmptyDeck
    /\ order2 = <<>>
    /\ enc2 = NoEnc
    /\ IdleBits
    /\ pc = "code"

\* out, err := Decode(p, code)
DecodeHeader ==
    /\ pc = "code"
    /\ q' = p
    /\ dec' = Decode(p, str)
    /\ pc' = "parsed"
    /\ UNCHANGED <<p, in, order, enc, str, in2, order2, enc2>>
    /\ UNCHANGED <<bitVars, fnVars>>

NextHeader == DecodeHeader

SpecHeader == InitHeader /\ [][NextHeader]_vars

(***************************************************************************)
(* Reads that fail and reads that follow them: a Reader on which every     *)
(* call is made, and a second one, res, on which only the calls that       *)
(* returned no error are                                                   *)
(***************************************************************************)

\* the number of ReadBits calls
MaxCalls == 4

\* sources of 6 and of 10 bytes, every fourth byte below 128
MidSrc == <<255, 255, 255, 21, 255, 21>>
LongSrc == <<255, 255, 255, 21, 255, 255, 255, 21, 255, 21>>

\* the widths asked for: negative, within a uint32, and above it
AnyWidths == {-1, 3, 32, 64, 100}

\* the valid bits declared for a source of n bytes: within it and beyond it
DeclaredBits(n) == {v \in {8 * n - 3, 8 * n, 8 * n + 5, 8 * n + 200} : v >= 0}

InitFailedRead ==
    /\ IdleCodec
    /\ wr = NewWriter
    /\ wrote = <<>>
    /\ flushed = <<>>
    /\ rd = NoRead
    /\ got = <<>>
    /\ \E src \in SeqsUpTo(SrcBytes, 1) \cup {MidSrc, LongSrc} :
          \E v \in DeclaredBits(Len(src)) :
              /\ arg = [src |-> src, valid |-> v]
              /\ rdr = NewReader(src, v)
              /\ res = NewReader(src, v)
    /\ used = [valid |-> 0, bits |-> 0, calls |-> 0, failed |-> 0, wide |-> FALSE]
    /\ pc = "open"

\* the call finds width bits: declared valid, and in the accumulator and the
\* bytes of Src not yet loaded
HasBits(r, width) ==
    /\ width >= 0
    /\ r.rem >= width
    /\ r.nbits + 8 * (Len(r.Src) - r.cur) >= width

\* out, err := r.ReadBits(width); the same call on res when err is nil.  More
\* than 32 bits do not fit the uint32 returned, so such a width is asked for
\* only where the call fails; 32 bits only where the last is zero.
ReadOrFail ==
    /\ pc = "open"
    /\ used.calls < MaxCalls
    /\ \E width \in AnyWidths :
          LET x == ReadBits(rdr, width) IN
          /\ HasBits(rdr, width) =>
                \/ width < 32
                \/ width = 32 /\ UnreadBit(rdr, 32) = 0 /\ UnreadBit(res, 32) = 0
          /\ rdr' = x.r
          /\ rd' = [width |-> width, out |-> x.out, err |-> x.err, left |-> rdr.rem]
          /\ IF x.err = Nil
             THEN LET y == ReadBits(res, width) IN
                  /\ res' = y.r
                  /\ got' = Append(got, [out |-> x.out, alone |-> y.out, err |-> y.err])
                  /\ used' = [used EXCEPT !.bits = @ + width, !.calls = @ + 1]
             ELSE /\ UNCHANGED <<res, got>>
                  /\ used' = [used EXCEPT !.calls = @ + 1, !.failed = @ + 1,
                                          !.wide = @ \/ width > AccBits]
    /\ UNCHANGED <<codecVars, pc, wr, wrote, flushed, arg>>

NextFailedRead == ReadOrFail

SpecFailedRead == InitFailedRead /\ [][NextFailedRead]_vars

(***************************************************************************)
(* Decode on streams of any content: the fields a stream was made of are   *)
(* kept in arg; an accepted stream is decoded again with other padding     *)
(* bits and with bytes after it                                            *)
(***************************************************************************)

\* the largest number of entries of such a stream
MaxWire == 2

\* the bytes after a stream
Tails == {<<>>, <<0>>, <<255>>, <<255, 0>>}

\* the bits a stream of these fields takes
FieldBits(L, T, D, ib) == 16 + 8 + ib * Len(L) + 8 + ib * Len(T) + 8 + (ib + 2) * Len(D)

\* the values given to n padding bits: all zero, the lowest one, all one
PadPatterns(n) == IF n = 0 THEN {0} ELSE {0, 1, 2 ^ n - 1}

\* the bytes b with pad in the n highest bits of the last, and tail after them
Extended(b, n, pad, tail) ==
    [b EXCEPT ![Len(b)] = (@ % (2 ^ (8 - n))) + pad * 2 ^ (8 - n)] \o tail

\* the packs such a stream is decoded with: empty, of one card and of three,
\* and one whose Cards hold an identifier twice
WirePacks ==
    {[FormatID |-> 257, Cards |-> c] : c \in {<<>>, <<1>>, <<1, 2, 3>>, <<1, 1, 2>>}}

\* the counts of the deck entries of such a stream
WireCounts == {1, 4}

InitWire ==
    /\ p \in WirePacks
    /\ LET ib == idBits(Len(p.Cards))
           ords == 0..(2 ^ ib - 1)
           pairs == [o : ords, c : WireCounts]
       IN  \E s \in Splits(MaxWire) :
             \E L \in [1..s[1] -> ords], T \in [1..s[2] -> ords], D \in [1..s[3] -> pairs] :
                LET b == WireBytes(p.FormatID, L, T, D, ib) IN
                /\ arg = [L |-> L, T |-> T, D |-> D, ib |-> ib, bytes |-> b,
                          pad |-> 8 * Len(b) - FieldBits(L, T, D, ib)]
                /\ str = EncodeToString(b)
    /\ res = [code |-> <<>>, dec |-> NoDec, tail |-> <<>>, pad |-> 0]
    /\ in = EmptyDeck
    /\ order = <<>>
    /\ enc = NoEnc
    /\ q = NoPack
    /\ dec = NoDec
    /\ in2 = EmptyDeck
    /\ order2 = <<>>
    /\ enc2 = NoEnc
    /\ IdleBits
    /\ pc = "code"

\* out, err := Decode(p, code) on the stream
DecodeWire ==
    /\ pc = "code"
    /\ q' = p
    /\ dec' = Decode(p, str)
    /\ pc' = "parsed"
    /\ UNCHANGED <<p, in, order, enc, str, in2, order2, enc2, bitVars, fnVars>>

\* out, err := Decode(p, code) on an accepted stream with other padding bits
\* and with bytes after it
DecodeExtended ==
    /\ pc = "parsed"
    /\ dec.err = Nil
    /\ \E tail \in Tails, pad \in PadPatterns(arg.pad) :
          LET code == EncodeToString(Extended(arg.bytes, arg.pad, pad, tail)) IN
          res' = [code |-> code, dec |-> Decode(p, code), tail |-> tail, pad |-> pad]
    /\ pc' = "extended"
    /\ UNCHANGED <<codecVars, bitVars, arg>>

NextWire == DecodeWire \/ DecodeExtended

SpecWire == InitWire /\ [][NextWire]_vars

(***************************************************************************)
(* The properties                                                          *)
(***************************************************************************)

\* a pack Encode accepts: FormatID not zero, Cards not empty
ValidPack(pack) == pack.FormatID # 0 /\ Len(pack.Cards) > 0

\* every identifier of the deck is a card of the pack
KnownIds(pack, deck) ==
    Range(deck.Leader) \cup Range(deck.Tactics) \cup DOMAIN deck.Deck \subseteq Range(pack.Cards)

\* every count of the main deck is in 1..4
CountsOk(deck) == \A k \in DOMAIN deck.Deck : deck.Deck[k] \in 1..4

\* how often v occurs in the list s
Occurs(s, v) == Cardinality({i \in DOMAIN s : s[i] = v})

\* the lists a and b hold every identifier the same number of times
SameCounts(a, b) == \A v \in Range(a) \cup Range(b) : Occurs(a, v) = Occurs(b, v)

\* the list b is the list a in another order
IsPermutation(a, b) ==
    /\ Len(a) = Len(b)
    /\ \E f \in Permutations(DOMAIN a) : b = [i \in DOMAIN a |-> a[f[i]]]

\* the identifiers a decoded deck holds
IdsOf(out) == Range(out.Leader) \cup Range(out.Tactics) \cup DOMAIN out.Deck

\* C1: round-trip.  For a pack with a non-zero FormatID and non-empty ascending
\* Cards and a deck whose identifiers are all in the pack, with counts in 1..4,
\* Encode succeeds, and Decode of its code against the same pack succeeds and
\* returns the leaders in ascending order, the tactics in ascending order and
\* the main-deck map of the input.
RoundTrip ==
    (ValidPack(p) /\ KnownIds(p, in) /\ CountsOk(in)) =>
        /\ (pc # "deck") => (enc.err = Nil)
        /\ (pc = "decoded" /\ q = p) =>
              /\ dec.err = Nil
              /\ dec.out.FormatID = p.FormatID
              /\ IsAscending(dec.out.Leader) /\ SameCounts(dec.out.Leader, in.Leader)
              /\ IsAscending(dec.out.Tactics) /\ SameCounts(dec.out.Tactics, in.Tactics)
              /\ dec.out.Deck = in.Deck

\* a deck with a leader and a main-deck entry of count 4 has come back from Decode
RoundTripReached ==
    /\ pc = "decoded" /\ q = p /\ dec.err = Nil
    /\ in.Leader # <<>>
    /\ \E k \in DOMAIN in.Deck : in.Deck[k] = 4
    /\ dec.out.Deck = in.Deck

\* C2: order independence.  A second Encode against the same pack, on the deck
\* with its Leader list permuted, its Tactics list permuted and its Deck map
\* ranged over in any order, returns the string of the first.
OrderIndependence ==
    (/\ pc = "reencoded"
     /\ IsPermutation(in.Leader, in2.Leader)
     /\ IsPermutation(in.Tactics, in2.Tactics)) =>
        (enc2.err = Nil /\ enc2.code = enc.code)

\* the same deck has been encoded twice with its map ranged over in two orders
OrderIndependenceReached ==
    /\ pc = "reencoded" /\ in2 = in /\ order2 # order
    /\ enc2.err = Nil /\ enc2.code = enc.code

\* C3: set-equality determinism, as claimed.  Two decks with the same set of
\* leaders, the same set of tactics and the same main-deck map are encoded to
\* the same string, also when their lists differ in repeated entries.
SetEqualSameCode == (pc = "reencoded") => (enc2.code = enc.code)

\* C3, amended.  Two such decks are encoded to the same string exactly when
\* their Leader lists hold every identifier the same number of times and so do
\* their Tactics lists: the order of a list does not matter, a repeated entry
\* does.
MultisetEqualSameCode ==
    (pc = "reencoded") =>
        ((enc2.code = enc.code)
            <=> (SameCounts(in.Leader, in2.Leader) /\ SameCounts(in.Tactics, in2.Tactics)))

\* a deck and the deck with its leaders in another order have got the same code
MultisetEqualReached ==
    /\ pc = "reencoded"
    /\ in2.Leader # in.Leader /\ SameCounts(in.Leader, in2.Leader)
    /\ in2.Tactics = in.Tactics
    /\ enc2.err = Nil /\ enc2.code = enc.code

\* C4: format binding.  Decode of a code against a pack whose FormatID differs
\* from that of the pack it was encoded against fails with the format_id
\* mismatch error, whatever the Cards of the two packs.
FormatBinding ==
    (pc = "decoded" /\ q.FormatID # p.FormatID) => (dec.err = ErrFormatMismatch)

\* a code made under FormatID 257 has been decoded against the same Cards under
\* FormatID 1, which has the same low byte
FormatBindingReached ==
    /\ pc = "decoded" /\ p.FormatID = 257 /\ q.FormatID = 1 /\ q.Cards = p.Cards
    /\ dec.err = ErrFormatMismatch

\* C5: Encode rejects an invalid pack.  With FormatID 0 or empty Cards Encode
\* returns an error and the empty string, whatever the deck.
RejectInvalidPack ==
    (pc # "deck" /\ (p.FormatID = 0 \/ Len(p.Cards) = 0)) =>
        (enc.err # Nil /\ enc.code = <<>>)

\* the empty deck has been refused against a pack without cards
RejectInvalidPackReached ==
    /\ pc = "encoded" /\ p.FormatID # 0 /\ Len(p.Cards) = 0 /\ in = EmptyDeck
    /\ enc.err = ErrEmptyPack

\* C6: unknown identifier.  With an identifier in Leader, in Tactics or among
\* the keys of Deck that is not in p.Cards, Encode returns an error and no code,
\* and has written nothing: the insertion point of the search is never encoded.
UnknownIdentifier ==
    (pc # "deck" /\ ~KnownIds(p, in)) =>
        (enc.err # Nil /\ enc.code = <<>> /\ enc.bw.calls = 0)

\* a leader that is not in the pack, and whose insertion point is the ordinal of
\* a card, has been refused
UnknownIdentifierReached ==
    /\ pc = "encoded" /\ ValidPack(p) /\ enc.err = ErrNotInPack
    /\ \E i \in DOMAIN in.Leader :
          /\ in.Leader[i] \notin Range(p.Cards)
          /\ \E j \in DOMAIN p.Cards : p.Cards[j] > in.Leader[i]

\* C7: count range.  With a main-deck count outside 1..4 Encode returns an
\* error and no code, and has written nothing: the count is never masked into
\* the 2-bit field.
CountRange ==
    (pc # "deck" /\ ~CountsOk(in)) =>
        (enc.err # Nil /\ enc.code = <<>> /\ enc.bw.calls = 0)

\* a deck of known cards with a count of 5 has been refused
CountRangeReached ==
    /\ pc = "encoded" /\ ValidPack(p) /\ KnownIds(p, in) /\ enc.err = ErrCount
    /\ \E k \in DOMAIN in.Deck : in.Deck[k] = 5

\* the three errors of a section that is too long
TooLongErrors == {ErrLeaderLong, ErrTacticsLong, ErrDeckLong}

\* C8: section size limit.  On a valid pack and a deck of known cards with
\* counts in 1..4, Encode fails with a too-long error exactly when the Leader
\* list, the Tactics list or the Deck map has more than 255 entries, and
\* succeeds otherwise; the code then decodes to sections of the lengths of the
\* input.
SectionLimit ==
    /\ (pc # "deck") =>
          /\ (enc.err \in TooLongErrors)
                <=> (\/ Len(in.Leader) > 255
                     \/ Len(in.Tactics) > 255
                     \/ Cardinality(DOMAIN in.Deck) > 255)
          /\ (enc.err \notin TooLongErrors) => (enc.err = Nil)
          /\ (enc.err # Nil) => (enc.code = <<>>)
    /\ (pc = "decoded" /\ q = p) =>
          /\ dec.err = Nil
          /\ Len(dec.out.Leader) = Len(in.Leader)
          /\ Len(dec.out.Tactics) = Len(in.Tactics)
          /\ dec.out.Deck = in.Deck

\* a deck with 255 leaders and 255 main-deck entries has been encoded and has
\* come back from Decode
SectionLimitReached ==
    /\ pc = "decoded" /\ q = p /\ dec.err = Nil
    /\ Len(in.Leader) = 255 /\ Len(dec.out.Leader) = 255
    /\ Cardinality(DOMAIN in.Deck) = 255 /\ Cardinality(DOMAIN dec.out.Deck) = 255

\* C9: ordinal bounds on decode, as claimed.  Decode fails with the
\* out-of-range error as soon as it has read an ordinal that is not below
\* len(p.Cards).
OrdinalOOBAtOnce ==
    (pc = "parsed" /\ dec.oob # "none") => (dec.err = ErrOrdinalOOB)

\* C9, amended.  Decode fails whenever it has read an ordinal that is not below
\* len(p.Cards): with the out-of-range error in the leader and in the tactics
\* section; in the deck section, where the 2-bit count is read before the
\* ordinal is checked, with the out-of-range error, or with ErrShort when fewer
\* than 2 bits are left for the count.  Every identifier of a successful Decode
\* is a card of p.Cards, and p.Cards is never indexed out of bounds.
OrdinalBounds ==
    (pc = "parsed") =>
        /\ (dec.oob \in {"leader", "tactics"}) => (dec.err = ErrOrdinalOOB)
        /\ (dec.oob = "deck") =>
              \/ dec.err = ErrOrdinalOOB
              \/ (dec.err = ErrShort /\ dec.br.rem < 2)
        /\ (dec.err = Nil) => (IdsOf(dec.out) \subseteq Range(p.Cards))
        /\ dec.err # PanicIndex

\* a stream that ends after an ordinal of the deck section that is not below
\* len(p.Cards) has been refused with ErrShort
OrdinalBoundsReached ==
    /\ pc = "parsed" /\ dec.oob = "deck" /\ dec.err = ErrShort

\* C10: truncation.  Decode, against the same pack, of the byte stream of a code
\* of Encode with one or more of its last bytes removed fails with ErrShort.
Truncation == (pc = "truncated") => (dec.err = ErrShort)

\* a stream cut after its header has been refused with ErrShort
TruncationReached ==
    /\ pc = "truncated" /\ dec.err = ErrShort
    /\ Len(str) > 0 /\ dec.br.cur > 2

\* C11: ascending decode output.  For a pack with ascending Cards and any
\* string that Decode accepts, the Leader and the Tactics returned are in
\* ascending order.
AscendingDecode ==
    (pc = "parsed" /\ dec.err = Nil) =>
        (IsAscending(dec.out.Leader) /\ IsAscending(dec.out.Tactics))

\* v & ((1 << width) - 1) for a value below 2^31
Masked(v, width) == IF width >= 31 THEN v ELSE v % (2 ^ width)

\* C12: bit I/O fidelity.  The fields written with WriteBits, flushed with
\* Finish and read back with the same widths in the same order from
\* NewReader(buf, totalBits) come back without error, each as its value masked
\* to its width: no bit above the width of a field reaches another field.
BitFidelity ==
    \A i \in 1..Len(got) :
        /\ got[i].err = Nil
        /\ got[i].out = Masked(wrote[i].v, wrote[i].width)

\* a value with every bit set written in 5 bits and 10101b written in 13 bits
\* have been read back as 11111b and 10101b
BitFidelityReached ==
    /\ pc = "reading" /\ Len(got) = 2
    /\ wrote[1] = [v |-> 2147483647, width |-> 5] /\ got[1].out = 31
    /\ wrote[2] = [v |-> 21, width |-> 13] /\ got[2].out = 21

\* C13: Finish and buffer length.  After WriteBits calls of B bits in all,
\* Finish returns ceil(B/8) bytes, the bits of the last byte above the B written
\* are zero, and a second Finish returns the same bytes.
FinishLength ==
    \A i \in 1..Len(flushed) :
        LET B == TotalBits(wrote)
            buf == flushed[i]
        IN  /\ Len(buf) = (B + 7) \div 8
            /\ (B % 8 # 0) => (buf[Len(buf)] < 2 ^ (B % 8))
            /\ buf = flushed[1]
            /\ wr.Buf = flushed[Len(flushed)]

\* Finish has been called twice after 8 bits and 5 bits, every bit set, had
\* been written
FinishLengthReached ==
    /\ pc = "finished" /\ Len(flushed) = 2
    /\ wrote = <<[v |-> 2147483647, width |-> 8], [v |-> 2147483647, width |-> 5]>>
    /\ flushed[2] = <<255, 31>>

\* C14: short read against the valid-bit budget.  On a Reader with validBits in
\* 0..8*len(src), ReadBits(width) returns ErrShort exactly when fewer than width
\* of the valid bits are left, whatever src still holds, and no other error.
ShortRead ==
    (pc = "open" /\ used.calls > 0) =>
        /\ (rd.err = ErrShort) <=> (rd.left < rd.width)
        /\ rd.err \in {Nil, ErrShort}

\* of 5 valid bits in a byte 3 have been read, and a read of 3 more has
\* returned ErrShort
ShortReadReached ==
    /\ pc = "open" /\ used.valid = 5 /\ used.calls = 2 /\ used.bits = 3
    /\ Len(rdr.Src) = 1
    /\ rd.width = 3 /\ rd.left = 2 /\ rd.err = ErrShort

\* the n low bits of v, least significant first, by arithmetic
Bin(v, n) == [i \in 1..n |-> (v \div (2 ^ (i - 1))) % 2]

\* the position of id in Cards: the number of cards below it
RankOf(cards, id) == Cardinality({i \in DOMAIN cards : cards[i] < id})

\* the ordinals of a card list in ascending order
AscendingOrdinals(cards, s) ==
    CHOOSE t \in [1..Len(s) -> 0..(Len(cards) - 1)] :
        /\ \A i \in 1..(Len(s) - 1) : t[i] <= t[i + 1]
        /\ \A o \in 0..(Len(cards) - 1) :
              Occurs(t, o) = Cardinality({i \in DOMAIN s : RankOf(cards, s[i]) = o})

\* the identifiers of a deck map in ascending order
AscendingKeys(deck) ==
    CHOOSE t \in [1..Cardinality(DOMAIN deck) -> DOMAIN deck] :
        \A i \in 1..(Cardinality(DOMAIN deck) - 1) : t[i] < t[i + 1]

\* n fields of ib bits each, one after the other
OrdinalBits(t, ib) ==
    [j \in 1..(Len(t) * ib) |-> Bin(t[((j - 1) \div ib) + 1], ib)[((j - 1) % ib) + 1]]

\* n fields of an ordinal in ib bits followed by count-1 in 2 bits
PairBits(cards, deck, ib) ==
    LET t == AscendingKeys(deck) IN
    [j \in 1..(Len(t) * (ib + 2)) |->
        LET k == t[((j - 1) \div (ib + 2)) + 1]
            r == ((j - 1) % (ib + 2)) + 1
        IN  IF r <= ib THEN Bin(RankOf(cards, k), ib)[r]
                       ELSE Bin(deck[k] - 1, 2)[r - ib]]

\* the bit stream of the wire format
PackedBits(pack, deck) ==
    LET ib == idBits(Len(pack.Cards)) IN
    Bin(pack.FormatID, 16)
        \o Bin(Len(deck.Leader), 8)
        \o OrdinalBits(AscendingOrdinals(pack.Cards, deck.Leader), ib)
        \o Bin(Len(deck.Tactics), 8)
        \o OrdinalBits(AscendingOrdinals(pack.Cards, deck.Tactics), ib)
        \o Bin(Cardinality(DOMAIN deck.Deck), 8)
        \o PairBits(pack.Cards, deck.Deck, ib)

\* the bytes of a bit stream, bit i at position i mod 8 of byte i div 8, the
\* last byte filled with zeros
PackedBytes(b) ==
    LET bit(j) == IF j <= Len(b) THEN b[j] ELSE 0 IN
    [n \in 1..((Len(b) + 7) \div 8) |->
        LET z == 8 * (n - 1) IN
        bit(z + 1) + 2 * bit(z + 2) + 4 * bit(z + 3) + 8 * bit(z + 4)
            + 16 * bit(z + 5) + 32 * bit(z + 6) + 64 * bit(z + 7) + 128 * bit(z + 8)]

\* C15: wire format.  For every deck that Encode accepts, the bytes that are
\* base64url-encoded are the LSB-first packing of the 16-bit FormatID, the 8-bit
\* leader count and its ordinals ascending, the 8-bit tactics count and its
\* ordinals ascending, the 8-bit deck count and its pairs (ordinal, then count-1
\* in 2 bits) ascending by ordinal, the last byte zero-padded; there are
\* ceil((40 + (L+T+U)*idBits + 2*U)/8) of them.
WireFormat ==
    (pc # "deck" /\ enc.err = Nil) =>
        LET raw == DecodeString(enc.code)
            ib == idBits(Len(p.Cards))
            L == Len(in.Leader)
            T == Len(in.Tactics)
            U == Cardinality(DOMAIN in.Deck)
        IN  /\ raw.err = Nil
            /\ raw.raw = PackedBytes(PackedBits(p, in))
            /\ enc.bw.Buf = raw.raw
            /\ Len(raw.raw) = (40 + (L + T + U) * ib + 2 * U + 7) \div 8

\* a deck of two copies of card 2 and four of card 3, given with key 3 first,
\* has been encoded against the pack of cards 1, 2, 3 into 6 bytes
WireFormatReached ==
    /\ pc = "encoded" /\ enc.err = Nil
    /\ p.Cards = <<1, 2, 3>>
    /\ in.Leader = <<>> /\ in.Tactics = <<>>
    /\ DOMAIN in.Deck = {2, 3} /\ in.Deck[2] = 2 /\ in.Deck[3] = 4
    /\ order = <<3, 2>>
    /\ enc.bw.Buf = <<1, 1, 0, 0, 2, 229>>

\* the number held by the bytes of a buffer, first byte lowest
RECURSIVE LittleEndian(_)
LittleEndian(buf) ==
    IF Len(buf) = 0 THEN 0 ELSE buf[1] + 256 * LittleEndian(Tail(buf))

\* C16: idBits.  idBits(M) is 1 when M <= 1 and otherwise the smallest b with
\* 2^b >= M; so every ordinal in 0..M-1 of a pack of M >= 1 cards is below
\* 2^idBits(M) and is written in idBits(M) bits with no bit lost.
IdBitsWidth ==
    /\ (pc \in {"width", "written"}) =>
          /\ (arg.m <= 1) => (res.b = 1)
          /\ (arg.m > 1) =>
                /\ 2 ^ res.b >= arg.m
                /\ \A c \in 0..(res.b - 1) : 2 ^ c < arg.m
    /\ (pc = "written") =>
          /\ arg.o < 2 ^ res.b
          /\ LittleEndian(wr.Buf) = arg.o

\* the last ordinal, 256, of a pack of 257 cards has been written in 9 bits
IdBitsWidthReached ==
    /\ pc = "written" /\ arg.m = 257 /\ arg.o = 256 /\ res.b = 9
    /\ wr.Buf = <<0, 1>>

\* C17: no false negatives.  The filter built from a non-empty identifier set at
\* a rate in (0,1) answers MayContain true for every identifier of the set, and
\* MayContainAll true for every list drawn from the set.
NoFalseNegatives ==
    (pc \in {"filter", "queried"} /\ res.kind = "built" /\ arg.cards # <<>>
        /\ 0 < arg.rate /\ arg.rate < 1000) =>
        /\ \A id \in Range(arg.cards) : res.each[id]
        /\ (pc = "queried" /\ Range(res.query.pks) \subseteq Range(arg.cards)) => res.query.ok

\* the filter of the cards 1, 2, 3 at a rate of 0.01, of 64 bits and 15 hash
\* functions, has been asked for 1 and 3
NoFalseNegativesReached ==
    /\ pc = "queried" /\ res.kind = "built"
    /\ arg.cards = <<1, 2, 3>> /\ arg.rate = 10
    /\ res.bloom.MBits = 64 /\ res.bloom.K = 15
    /\ res.query.pks = <<1, 3>> /\ res.query.ok

\* a filter whose bit text does not decode to MBits bits
Corrupt(b) ==
    LET d == DecodeString(b.BitsB64) IN d.err # Nil \/ 8 * Len(d.raw) # b.MBits

\* C18: fail-open.  MayContain and MayContainAll return true for every
\* identifier and every list when the filter is nil, when it is the empty filter
\* (m = 0, k = 0, no bit data) and when its bit encoding is corrupt.
FailOpen ==
    (pc \in {"filter", "queried"}
        /\ \/ res.bloom.nil
           \/ res.bloom = EmptyBloom
           \/ Corrupt(res.bloom)) =>
        /\ \A id \in Ids : res.each[id]
        /\ (pc = "queried") => res.query.ok

\* a nil filter has been asked for two identifiers
FailOpenReached ==
    /\ pc = "queried" /\ res.kind = "nil" /\ res.bloom.nil
    /\ res.query.pks = <<1, 2>> /\ res.query.ok

\* C19: MayContainAll is the conjunction of MayContain.  For a non-nil filter
\* it is true exactly when MayContain is true of every identifier of the list,
\* it asks no identifier after the first that fails, and on a filter of m = 64,
\* k = 2 with no bit set it is false for every non-empty list.
Conjunction ==
    (pc = "queried" /\ ~res.bloom.nil) =>
        LET pks == res.query.pks
            yes(i) == MayContain(arg.h, res.bloom, pks[i])
        IN  /\ res.query.ok <=> \A i \in DOMAIN pks : yes(i)
            /\ \A i \in 1..(res.query.asked - 1) : yes(i)
            /\ res.query.ok => res.query.asked = Len(pks)
            /\ ~res.query.ok => ~yes(res.query.asked)
            /\ (res.kind = "zeroed" /\ pks # <<>>) => ~res.query.ok

\* the filter of card 1 alone has been asked for 1, which it holds, and 2,
\* which it does not
ConjunctionReached ==
    /\ pc = "queried" /\ res.kind = "built"
    /\ arg.cards = <<1>> /\ arg.rate = 10
    /\ res.each[1] /\ ~res.each[2]
    /\ res.query = [pks |-> <<1, 2>>, ok |-> FALSE, asked |-> 2]

\* C20: UniqSortedPKsFromDeck.  The result is strictly ascending, its elements
\* are those of Leader, of Tactics and the keys of Deck, it is empty for an
\* empty deck, and Leader and Tactics are as they were.
UniqSorted ==
    (pc = "uniq") =>
        /\ \A i \in 1..(Len(res.out) - 1) : res.out[i] < res.out[i + 1]
        /\ Range(res.out) = Range(arg.deck.Leader) \cup Range(arg.deck.Tactics)
                                \cup DOMAIN arg.deck.Deck
        /\ (arg.deck = EmptyDeck) => (res.out = <<>>)
        /\ res.Leader = arg.deck.Leader
        /\ res.Tactics = arg.deck.Tactics

\* leader 3, tactics 1 and a deck of card 3 have given 1, 3
UniqSortedReached ==
    /\ pc = "uniq"
    /\ arg.deck.Leader = <<3>> /\ arg.deck.Tactics = <<1>>
    /\ DOMAIN arg.deck.Deck = {3}
    /\ res.out = <<1, 3>>

\* C21: LoadPack sorts on load.  For every well-formed pack document, whatever
\* the order of its cards, the Cards returned are ascending and a permutation
\* of the document's cards, duplicates kept.
LoadSorts ==
    (pc = "loaded" /\ arg.found /\ arg.valid) =>
        /\ res.err = Nil
        /\ res.pack.FormatID = arg.format_id
        /\ IsAscending(res.pack.Cards)
        /\ Len(res.pack.Cards) = Len(arg.cards)
        /\ \A v \in DocIds : Occurs(res.pack.Cards, v) = Occurs(arg.cards, v)

\* the cards 5, 3, 3, 2 have been loaded as 2, 3, 3, 5
LoadSortsReached ==
    /\ pc = "loaded" /\ arg.cards = <<5, 3, 3, 2>>
    /\ res.err = Nil /\ res.pack.Cards = <<2, 3, 3, 5>>

\* strictly ascending: ascending with no duplicates
IsStrictlyAscending(s) == \A i \in 1..(Len(s) - 1) : s[i] < s[i + 1]

\* C26 as stated: every Pack returned by LoadPack has Cards that are strictly
\* ascending, without duplicates and with at least one entry.
LoadInvariant ==
    (pc = "loaded" /\ res.err = Nil) =>
        /\ IsStrictlyAscending(res.pack.Cards)
        /\ Len(res.pack.Cards) >= 1

\* C26: dictionary invariant, as the code has it.  The Cards of every Pack
\* returned by LoadPack are ascending; they are strictly ascending exactly when
\* no card occurs twice in the document, and they have at least one entry
\* exactly when the document has.
LoadInvariantAsSorted ==
    (pc = "loaded" /\ res.err = Nil) =>
        /\ IsAscending(res.pack.Cards)
        /\ IsStrictlyAscending(res.pack.Cards)
              <=> (\A v \in DocIds : Occurs(arg.cards, v) <= 1)
        /\ (Len(res.pack.Cards) >= 1) <=> (arg.cards # <<>>)

\* a document with card 3 twice has been loaded into a Pack with card 3 twice
LoadInvariantAsSortedReached ==
    /\ pc = "loaded" /\ res.err = Nil
    /\ arg.cards = <<3, 2, 3>> /\ res.pack.Cards = <<2, 3, 3>>

\* C22 as stated: for a pack whose Cards arrive in any order, Encode and Decode
\* return what they return for the pack with the same Cards sorted.
DefensiveSort ==
    /\ (pc \in {"encoded", "decoded"}) =>
          (enc.code = res.enc.code /\ enc.err = res.enc.err)
    /\ (pc = "decoded") =>
          (dec.out = res.dec.out /\ dec.err = res.dec.err)

\* C22: the order of p.Cards, as the code has it.  Encode and Decode use
\* p.Cards in the order given.  On ascending Cards they return what they return
\* for the sorted pack.  On Cards in any order, Decode returns identifiers of
\* the pack, and when Encode accepts a deck, Decode of its code against the
\* same pack returns that deck: its leaders and tactics, every one as often as
\* given, and its main-deck map.
CardsAsGiven ==
    /\ IsAscending(p.Cards) => DefensiveSort
    /\ (pc = "decoded" /\ dec.err = Nil) =>
          /\ Range(dec.out.Leader) \cup Range(dec.out.Tactics) \cup DOMAIN dec.out.Deck
                \subseteq Range(p.Cards)
          /\ (enc.err = Nil /\ str = enc.code) =>
                /\ SameCounts(dec.out.Leader, in.Leader)
                /\ SameCounts(dec.out.Tactics, in.Tactics)
                /\ dec.out.Deck = in.Deck

\* on the Cards 1, 3, 2 leader 3 has been encoded with ordinal 1, not the
\* ordinal 2 of the sorted pack, and decoded as leader 3
CardsAsGivenReached ==
    /\ pc = "decoded"
    /\ p.Cards = <<1, 3, 2>> /\ in.Leader = <<3>>
    /\ enc.err = Nil /\ res.enc.err = Nil /\ enc.code # res.enc.code
    /\ str = enc.code /\ dec.err = Nil /\ dec.out.Leader = <<3>>
    /\ res.dec.out.Leader = <<2>>

\* C23 as stated: no WriteBits call happens in an Encode call that ends in a
\* validation error.
NoWriteBeforeError ==
    (pc = "encoded" /\ enc.err # Nil) => (enc.bw.calls = 0)

\* C23: validation and writing, as the code has it.  A failing Encode returns
\* no string.  A zero FormatID, an empty pack, an identifier not in the pack and
\* a count outside 1..4 are found before any WriteBits call; a section longer
\* than 255 is found when its turn to be written has come: the leader after the
\* header has been written, the tactics after the leader section, the deck
\* after the tactics section.
ValidationThenWriting ==
    (pc = "encoded" /\ enc.err # Nil) =>
        /\ enc.code = <<>>
        /\ (enc.err \notin TooLongErrors) => (enc.bw = NewWriter)
        /\ (enc.err = ErrLeaderLong) => (enc.bw.calls = 1)
        /\ (enc.err = ErrTacticsLong) => (enc.bw.calls = 2 + Len(in.Leader))
        /\ (enc.err = ErrDeckLong) => (enc.bw.calls = 3 + Len(in.Leader) + Len(in.Tactics))

\* Encode has failed on a leader list of 256 entries with the 16 bits of the
\* header written
ValidationThenWritingReached ==
    /\ pc = "encoded" /\ enc.err = ErrLeaderLong /\ enc.code = <<>>
    /\ Len(in.Leader) = 256
    /\ enc.bw.calls = 1 /\ enc.bw.Buf = <<1, 1>>

MismatchOnly ==
    (pc = "parsed") =>
        /\ (dec.err = ErrFormatMismatch)
              <=> (arg.malformed = "none" /\ arg.bytes >= 2 /\ arg.fid # p.FormatID)
        /\ (arg.malformed # "none") => (dec.err = ErrBase64)
        /\ (arg.malformed = "none" /\ arg.bytes < 2) => (dec.err = ErrShort)
        /\ (arg.malformed = "none" /\ arg.bytes >= 2 /\ arg.fid = p.FormatID)
              => (dec.err \in {Nil, ErrShort, ErrOrdinalOOB})

\* a string with the header 1, cut after its header and before a body that
\* holds an ordinal out of range, has been refused by a pack of FormatID 257
\* as a format mismatch
MismatchOnlyReached ==
    /\ pc = "parsed" /\ p.FormatID = 257 /\ Len(p.Cards) = 3
    /\ arg.fid = 1 /\ arg.malformed = "none" /\ arg.oob /\ ~arg.whole /\ arg.bytes = 2
    /\ dec.err = ErrFormatMismatch

\* the reader with the failed calls and the reader without them have the same
\* bits before them, and have returned the same values
SameStream ==
    /\ \A k \in 1..(8 * Len(arg.src)) : UnreadBit(rdr, k) = UnreadBit(res, k)
    /\ \A i \in 1..Len(got) : got[i].err = Nil /\ got[i].out = got[i].alone

\* C28 as stated: a ReadBits call that returns ErrShort leaves the count of
\* valid bits as it was, loses no bit of the stream, and every later call that
\* succeeds returns what it returns without the failed call.
FailedReadKeepsAll ==
    /\ rdr.rem = res.rem
    /\ (rd.err = ErrShort) => (rdr.rem = rd.left)
    /\ SameStream

\* C28: a failed read, as the code has it.  A ReadBits call that returns
\* ErrShort leaves the count of valid bits as it was.  When no failed call has
\* asked for more than the 64 bits the accumulator holds, no bit of the stream
\* is lost and every later call that succeeds returns what it returns without
\* the failed calls.
FailedReadKeeps ==
    /\ rdr.rem = res.rem
    /\ (rd.err = ErrShort) => (rdr.rem = rd.left)
    /\ ~used.wide => SameStream

\* a read of 64 bits has failed when the 6 bytes of the source ran out, with
\* all of them loaded, and a read of 3 bits after it has returned the first 3
FailedReadKeepsReached ==
    /\ arg.src = MidSrc /\ arg.valid = 248
    /\ used.failed = 1 /\ ~used.wide
    /\ rdr.cur = 6 /\ res.cur = 1
    /\ rd.width = 3 /\ rd.err = Nil /\ rd.out = 7
    /\ Len(got) = 1

\* C29: trailing data is ignored.  For every stream that Decode accepts, the
\* stream with other padding bits after its last deck entry and with any bytes
\* after it is accepted too, with the same Leader, Tactics and Deck.
TrailingIgnored ==
    (pc = "extended") =>
        /\ res.dec.err = Nil
        /\ res.dec.out.Leader = dec.out.Leader
        /\ res.dec.out.Tactics = dec.out.Tactics
        /\ res.dec.out.Deck = dec.out.Deck

\* a stream with a leader and a deck entry in fields of 1 bit, 4 padding bits,
\* has been decoded again with all 4 set and a byte 255 after it
TrailingIgnoredReached ==
    /\ pc = "extended"
    /\ Len(dec.out.Leader) = 1
    /\ DOMAIN dec.out.Deck # {}
    /\ arg.pad = 4 /\ res.pad = 15
    /\ res.tail = <<255>>
    /\ res.code # str
    /\ res.dec.br.rem = 12

\* the identifiers of the deck entries of the stream, in the order read
ReadIds == [i \in 1..Len(arg.D) |-> p.Cards[arg.D[i].o + 1]]

\* the last deck entry of the stream with the identifier pk
LastOf(pk) == CHOOSE i \in 1..Len(arg.D) :
                  /\ ReadIds[i] = pk
                  /\ \A j \in (i + 1)..Len(arg.D) : ReadIds[j] # pk

\* C30: repeated deck ordinals collapse.  Decode accepts a stream whose deck
\* section holds an ordinal more than once.  The Deck of an accepted stream has
\* one entry for each identifier read in the deck section and no other, with
\* the count of the last entry of the stream that has the identifier; every
\* count is in 1..4; the Deck has as many entries as the stream's count U
\* exactly when the U identifiers are all different.
RepeatsCollapse ==
    (pc = "parsed" /\ dec.err = Nil) =>
        /\ DOMAIN dec.out.Deck = {ReadIds[i] : i \in 1..Len(arg.D)}
        /\ \A pk \in DOMAIN dec.out.Deck :
              /\ dec.out.Deck[pk] = arg.D[LastOf(pk)].c
              /\ dec.out.Deck[pk] \in 1..4
        /\ (Cardinality(DOMAIN dec.out.Deck) = Len(arg.D))
              <=> (\A i, j \in 1..Len(arg.D) : ReadIds[i] = ReadIds[j] => i = j)

\* a stream with the ordinal 1 twice in its deck section, first with the count
\* 1 and then with the count 4, has been accepted with a Deck of one entry
RepeatsCollapseReached ==
    /\ pc = "parsed" /\ dec.err = Nil
    /\ p.Cards = <<1, 2, 3>>
    /\ arg.D = <<[o |-> 1, c |-> 1], [o |-> 1, c |-> 4]>>
    /\ dec.out.Deck = MapPut(EmptyMap, 2, 4)

====
